---- MODULE Spec2Model ----
(***************************************************************************)
(* A model of msod-stat: the DriveState item mirror (src/src/item.rs), the *)
(* Fetcher/Applier pipeline of sync_drive_items (src/src/sync.rs) with the *)
(* ItemHandler of src/src/main.rs, the Storage cache (src/src/storage.rs)  *)
(* and the duplicate bucketer bucket_by_size (src/src/size.rs).            *)
(*                                                                         *)
(* Each component has its own specification over the shared variables:     *)
(*   SpecState    upsert / delete / reset on a DriveState                  *)
(*   SpecSync     one run of sync_items -> sync_drive_items                *)
(*   SpecStorage  Storage::save / Storage::load on a small file system     *)
(*   SpecBucket   bucket_by_size over an items map                         *)
(***************************************************************************)
EXTENDS Integers, Sequences, FiniteSets, TLC

VARIABLES
    mode,            \* which component this behaviour runs
    overflow_checks, \* build profile: TRUE = u64 overflow panics, FALSE = wraps
    state,           \* DriveState: [size, items]
    main_panic,      \* Option<payload> of a panic on the main (Applier) thread
    last_op,         \* the last DriveState call: [op, item]
    \* sync_drive_items: the Fetcher thread
    f_pc,            \* "idle", "run", "returned" or "panicked"
    link,            \* fetch_items' link
    reset_link,      \* fetch_items' reset_link
    fail_count,      \* fetch_items' fail_count
    f_exit,          \* how the Fetcher thread ended: its value or panic payload
    last_response,   \* the last server response the Fetcher observed
    \* sync_drive_items: the channel
    chan,            \* messages sent and not yet received
    receiver_alive,  \* FALSE once the Receiver is dropped
    sent,            \* every message sent so far, in order
    \* sync_drive_items: the Applier (main thread)
    a_pc,            \* "idle", "recv", "join", "returned" or "panicked"
    applied,         \* every handler call so far, in order
    start,           \* the snapshot the sync started from
    delta_link,      \* snapshot.delta_link
    sync_result,     \* Option<Result> of sync_items
    \* Storage
    path,            \* Storage::path: Option<PathBuf>
    fs,              \* the files of the cache directory: path -> content
    s_pc,            \* where save is: "idle", "serialize", "rename", "remove"
    tmp_path,        \* save's tmp_path
    saving,          \* Option<value>: the value the current or last save was given
    load_result,     \* what load returned since the last save began, if called
    last_save,       \* how the last call of save that returned went
    wrote,           \* how the current or last save's write went
    target_before,   \* Option<content> of the target when the save began
    saves,           \* the number of calls of save so far
    b_pc,            \* where bucket_by_size is: "idle", "loop", "returned"
    names_by_hash,   \* the map bucket_by_size is given
    todo,            \* the ids its loop has yet to visit
    file_count,      \* u32, far above the number of entries of any map here
    folder_count,    \* u32
    names_by_hash_by_size,
    m_pc,            \* where main is: "idle", "load", "sync", "save", "panicked"
    drive_id,        \* main: the drive its loop is at
    wire,            \* an item as the server sends it
    decoded,         \* what decoding it gave, once it is decoded
    retries,         \* get: the retries left to the call in progress
    delay,           \* get: the seconds it sleeps before its next retry
    slept            \* get: the sleeps of the call in progress, in order

stateVars == <<overflow_checks, state, main_panic, last_op>>

fetchVars == <<f_pc, link, reset_link, fail_count, f_exit, last_response>>

chanVars == <<chan, receiver_alive, sent>>

applyVars == <<a_pc, applied, start, delta_link, sync_result>>

syncVars == <<fetchVars, chanVars, applyVars>>

storVars ==
    <<path, fs, s_pc, tmp_path, saving, load_result, last_save, wrote, target_before,
      saves>>

bucketVars ==
    <<b_pc, names_by_hash, todo, file_count, folder_count, names_by_hash_by_size>>

decodeVars == <<wire, decoded>>

getVars == <<retries, delay, slept>>

mainVars == <<m_pc, drive_id>>

vars == <<mode, stateVars, syncVars, storVars, bucketVars, mainVars, decodeVars, getVars>>

(***************************************************************************)
(* Option<T>: None is the empty sequence, Some(x) the one-element sequence *)
(***************************************************************************)
None == <<>>

Some(x) == <<x>>

IsSome(o) == o /= <<>>

Unwrap(o) == o[1]

(***************************************************************************)
(* Bounds of the model                                                     *)
(***************************************************************************)
\* u64::MAX, scaled down: sizes are stored modulo MaxU64 + 1
MaxU64 == 7

(***************************************************************************)
(* Items (src/src/item.rs)                                                 *)
(***************************************************************************)
\* strings are sequences of tokens, so that prefix/suffix/substring searches
\* are computed and not assumed
DriveRootPrefix == <<"/", "drive", "/", "root:", "/">>

Hash(sha, xor) == [sha |-> sha, xor |-> xor]

Parent(parent_path, drive_type) ==
    [path |-> parent_path, drive_type |-> drive_type]

File(hashes) == [tag |-> "File", hashes |-> hashes]

Folder == [tag |-> "Folder", hashes |-> None]

Package == [tag |-> "Package", hashes |-> None]

Item(id, name, sz, parent, item_type, deleted) ==
    [id |-> id, name |-> name, size |-> sz, parent |-> parent,
     item_type |-> item_type, deleted |-> deleted]

IsFile(item) == item.item_type.tag = "File"

(***************************************************************************)
(* DriveState (src/src/item.rs)                                            *)
(***************************************************************************)
DriveState(sz, its) == [size |-> sz, items |-> its]

EmptyItems == [i \in {} |-> None]

\* the outcome of one call: the state it leaves and the panic, if any
Outcome(st, panic) == [state |-> st, panic |-> panic]

\* an insert that keeps the entry already stored under the id
HashMapInsert_keeps_first(its, item) ==
    [k \in DOMAIN its \cup {item.id} |-> IF k \in DOMAIN its THEN its[k] ELSE item]

HashMapInsert(its, item) ==
    [k \in DOMAIN its \cup {item.id} |-> IF k = item.id THEN item ELSE its[k]]

HashMapRemove(its, id) == [k \in DOMAIN its \ {id} |-> its[k]]

HashMapGet(its, id) == IF id \in DOMAIN its THEN Some(its[id]) ELSE None

\* a reset that zeroes the total and forgets to clear the map
reset_keeps_items(st) == Outcome(DriveState(0, st.items), None)

reset(st) == Outcome(DriveState(0, EmptyItems), None)

\* self.size -= prev.size, under assert!(size <= self.size)
SubtractPrev(st, prev) ==
    IF IsSome(prev) /\ IsFile(Unwrap(prev))
    THEN IF Unwrap(prev).size <= st.size
         THEN Outcome(DriveState(st.size - Unwrap(prev).size, st.items), None)
         ELSE Outcome(st, Some("assertion failed: size <= self.size"))
    ELSE Outcome(st, None)

\* an upsert that never subtracts the entry it replaces
upsert_keeps_prev_size(st, item, checks) ==
    LET sum == st.size + item.size
        added == IF IsFile(item) THEN sum % (MaxU64 + 1) ELSE st.size
    IN  IF IsFile(item) /\ sum > MaxU64 /\ checks
        THEN Outcome(st, Some("attempt to add with overflow"))
        ELSE Outcome(DriveState(added, HashMapInsert(st.items, item)), None)

upsert(st, item, checks) ==
    LET sum == st.size + item.size
        overflow == IsFile(item) /\ sum > MaxU64
        added == IF IsFile(item) THEN sum % (MaxU64 + 1) ELSE st.size
        prev == HashMapGet(st.items, item.id)
    IN  IF overflow /\ checks
        THEN Outcome(st, Some("attempt to add with overflow"))
        ELSE SubtractPrev(DriveState(added, HashMapInsert(st.items, item)), prev)

\* a delete that subtracts what the tombstone carries
delete_by_tombstone(st, item) ==
    SubtractPrev(DriveState(st.size, HashMapRemove(st.items, item.id)),
                 IF item.id \in DOMAIN st.items THEN Some(item) ELSE None)

\* a delete that subtracts the size of whatever entry it removes
delete_any_type(st, item) ==
    LET prev == HashMapGet(st.items, item.id)
        removed == DriveState(st.size, HashMapRemove(st.items, item.id))
    IN  IF IsSome(prev)
        THEN SubtractPrev(removed, Some([Unwrap(prev) EXCEPT !.item_type = File(None)]))
        ELSE Outcome(removed, None)

delete(st, item) ==
    SubtractPrev(DriveState(st.size, HashMapRemove(st.items, item.id)),
                 HashMapGet(st.items, item.id))

(***************************************************************************)
(* SpecState: any sequence of calls on a DriveState that starts empty      *)
(***************************************************************************)
StateIds == {"a", "b"}

StateSizes == {0, 1, MaxU64 - 1, MaxU64}

StateTypes == {File(None), Folder, Package}

StateParent == Parent(Some(DriveRootPrefix \o <<"d">>), "personal")

StateItems ==
    {Item(id, <<"f">>, sz, StateParent, t, d) :
        id \in StateIds, sz \in StateSizes, t \in StateTypes,
        d \in {None, Some("Exists")}}

NoOp == [op |-> "new", item |-> None]

Op(op, item) == [op |-> op, item |-> item]

Apply(out, op, item) ==
    /\ state' = out.state
    /\ main_panic' = out.panic
    /\ last_op' = Op(op, item)
    /\ UNCHANGED <<mode, overflow_checks, syncVars, storVars, bucketVars, mainVars, decodeVars, getVars>>

Reset ==
    /\ mode = "state"
    /\ main_panic = None
    /\ Apply(reset(state), "reset", None)

Upsert ==
    /\ mode = "state"
    /\ main_panic = None
    /\ \E item \in StateItems :
          Apply(upsert(state, item, overflow_checks), "upsert", Some(item))

Delete ==
    /\ mode = "state"
    /\ main_panic = None
    /\ \E item \in StateItems :
          Apply(delete(state, item), "delete", Some(item))

\* let mut retries = 3, the retries of one call of get
GetRetries == 3

\* let mut delay = 1
GetDelay == 1

\* delay *= 16
GetBackoff == 16

\* get at its start, which is also how it is left while no get runs
GetIdle == retries = GetRetries /\ delay = GetDelay /\ slept = <<>>

\* the variables of the pipeline, while no sync runs
SyncIdle ==
    /\ f_pc = "idle"
    /\ link = ""
    /\ reset_link = ""
    /\ fail_count = 0
    /\ f_exit = None
    /\ last_response = None
    /\ chan = <<>>
    /\ receiver_alive = FALSE
    /\ sent = <<>>
    /\ a_pc = "idle"
    /\ applied = <<>>
    /\ start = None
    /\ delta_link = ""
    /\ sync_result = None
    /\ GetIdle

\* the drives of the account, in the order main goes through them
Drives == <<"d1", "d2">>

MainIdle == m_pc = "idle" /\ drive_id = Head(Drives) /\ wire = <<>> /\ decoded = None

\* the variables of Storage, while no Storage is used
BucketIdle ==
    /\ b_pc = "idle"
    /\ names_by_hash = <<>>
    /\ todo = {}
    /\ file_count = 0
    /\ folder_count = 0
    /\ names_by_hash_by_size = <<>>

StorageIdle ==
    /\ path = None
    /\ fs = <<>>
    /\ s_pc = "idle"
    /\ tmp_path = None
    /\ saving = None
    /\ load_result = None
    /\ last_save = [outcome |-> "none", removed |-> "n/a"]
    /\ wrote = "nothing"
    /\ target_before = None
    /\ saves = 0

InitState ==
    /\ mode = "state"
    /\ overflow_checks \in BOOLEAN
    /\ state = DriveState(0, EmptyItems)
    /\ main_panic = None
    /\ last_op = NoOp
    /\ SyncIdle
    /\ StorageIdle
    /\ BucketIdle
    /\ MainIdle

NextState == Reset \/ Upsert \/ Delete

SpecState == InitState /\ [][NextState]_vars

(***************************************************************************)
(* The serde encoding of a DriveSnapshot (src/src/item.rs): an encoded     *)
(* struct is its sequence of <<key, value>> pairs, an encoded file its     *)
(* sequence of entries between a begin and an end mark                     *)
(***************************************************************************)
\* the value of the first pair of obj with this key
Get(obj, key) ==
    LET at == {i \in 1..Len(obj) : obj[i][1] = key}
    IN  IF at = {} THEN None
        ELSE Some(obj[CHOOSE i \in at : \A j \in at : i <= j][2])

\* skip_serializing_if = "Option::is_none"
Field(key, opt) == IF IsSome(opt) THEN <<<<key, Unwrap(opt)>>>> ELSE <<>>

ser_hash(h) == Field("sha1Hash", h.sha) \o Field("quickXorHash", h.xor)

ser_parent(p) == Field("path", p.path) \o <<<<"driveType", p.drive_type>>>>

ser_item_type(t) ==
    IF t.tag = "File"
    THEN <<"file", IF IsSome(t.hashes)
                   THEN <<<<"hashes", ser_hash(Unwrap(t.hashes))>>>>
                   ELSE <<>>>>
    ELSE IF t.tag = "Folder" THEN <<"folder", <<>>>>
    ELSE <<"package", <<>>>>

ser_item(it) ==
    <<<<"id", it.id>>, <<"name", it.name>>, <<"size", it.size>>,
      <<"parentReference", ser_parent(it.parent)>>, ser_item_type(it.item_type)>>
    \o (IF IsSome(it.deleted) THEN <<<<"deleted", <<>>>>>> ELSE <<>>)

de_hash(obj) == Hash(Get(obj, "sha1Hash"), Get(obj, "quickXorHash"))

de_parent(obj) ==
    IF Get(obj, "driveType") = None THEN None
    ELSE Some(Parent(Get(obj, "path"), Unwrap(Get(obj, "driveType"))))

\* a decoder that takes an item for a File only when its facet has hashes
de_item_type_by_hashes(obj) ==
    LET at == {i \in 1..Len(obj) : obj[i][1] \in {"file", "folder", "package"}}
        first == CHOOSE i \in at : \A j \in at : i <= j
    IN  IF at = {} THEN None
        ELSE IF obj[first][1] = "file" /\ Get(obj[first][2], "hashes") # None
        THEN Some(File(Some(de_hash(Unwrap(Get(obj[first][2], "hashes"))))))
        ELSE IF obj[first][1] = "package" THEN Some(Package)
        ELSE Some(Folder)

\* the flattened enum: the first of the keys file, folder, package decides
de_item_type(obj) ==
    LET at == {i \in 1..Len(obj) : obj[i][1] \in {"file", "folder", "package"}}
        first == CHOOSE i \in at : \A j \in at : i <= j
    IN  IF at = {} THEN None
        ELSE IF obj[first][1] = "file"
        THEN Some(File(IF Get(obj[first][2], "hashes") = None THEN None
                       ELSE Some(de_hash(Unwrap(Get(obj[first][2], "hashes"))))))
        ELSE IF obj[first][1] = "folder" THEN Some(Folder)
        ELSE Some(Package)

de_item(obj) ==
    LET parent == IF Get(obj, "parentReference") = None THEN None
                  ELSE de_parent(Unwrap(Get(obj, "parentReference")))
    IN  IF \/ Get(obj, "id") = None
           \/ Get(obj, "name") = None
           \/ parent = None
           \/ de_item_type(obj) = None
        THEN None
        ELSE Some(Item(Unwrap(Get(obj, "id")), Unwrap(Get(obj, "name")),
                       IF Get(obj, "size") = None THEN 0 ELSE Unwrap(Get(obj, "size")),
                       Unwrap(parent), Unwrap(de_item_type(obj)),
                       IF Get(obj, "deleted") = None THEN None ELSE Some("Exists")))

\* the entries of a map, one per key, in some order
RECURSIVE ser_items(_, _)
ser_items(its, keys) ==
    IF keys = {} THEN <<>>
    ELSE LET k == CHOOSE x \in keys : TRUE
         IN  <<<<"entry", k, ser_item(its[k])>>>> \o ser_items(its, keys \ {k})

\* serde_cbor::to_writer of a DriveSnapshot
ser_snapshot(x) ==
    <<<<"begin">>, <<"delta_link", x.delta_link>>, <<"size", x.state.size>>,
      <<"items", Cardinality(DOMAIN x.state.items)>>>>
    \o ser_items(x.state.items, DOMAIN x.state.items)
    \o <<<<"end">>>>

\* a reader that takes a file cut short after its header for a snapshot
de_snapshot_of_cut_file(bytes) ==
    IF /\ Len(bytes) >= 4
       /\ bytes[1] = <<"begin">>
       /\ bytes[2][1] = "delta_link"
       /\ bytes[3][1] = "size"
       /\ bytes[4][1] = "items"
    THEN LET at == {i \in 5..Len(bytes) :
                      bytes[i][1] = "entry" /\ IsSome(de_item(bytes[i][3]))}
         IN Some([delta_link |-> bytes[2][2],
                  state |-> DriveState(bytes[3][2],
                     [k \in {bytes[i][2] : i \in at} |->
                        Unwrap(de_item(bytes[CHOOSE i \in at : bytes[i][2] = k][3]))])])
    ELSE None

\* serde_cbor::from_reader of a DriveSnapshot: Err on anything but a whole one
de_snapshot(bytes) ==
    IF /\ Len(bytes) >= 5
       /\ bytes[1] = <<"begin">>
       /\ bytes[Len(bytes)] = <<"end">>
       /\ bytes[2][1] = "delta_link"
       /\ bytes[3][1] = "size"
       /\ bytes[4][1] = "items"
       /\ bytes[4][2] = Len(bytes) - 5
       /\ \A i \in 5..(Len(bytes) - 1) :
             bytes[i][1] = "entry" /\ IsSome(de_item(bytes[i][3]))
    THEN LET keys == {bytes[i][2] : i \in 5..(Len(bytes) - 1)}
         IN Some([delta_link |-> bytes[2][2],
                  state |-> DriveState(bytes[3][2],
                     [k \in keys |->
                        Unwrap(de_item(bytes[CHOOSE i \in 5..(Len(bytes) - 1) :
                                                bytes[i][2] = k][3]))])])
    ELSE None

\* what a failed write leaves in a file: a strict prefix of the encoding
Truncations(bytes) == {SubSeq(bytes, 1, n) : n \in 0..(Len(bytes) - 1)}

(***************************************************************************)
(* sync_drive_items (src/src/sync.rs) driven by sync_items with the        *)
(* ItemHandler of src/src/main.rs                                          *)
(***************************************************************************)
\* bounds of one run: the messages the Fetcher sends (pages and resets) and
\* the items the server delivers in them
MaxMessages == 3

MaxItems == 2

\* retry_or_panic retries while $count < 3
RetryCap == 3

\* DriveSnapshot::default: PREFIX, drive_id, SUFFIX
DriveLink(id) == "drives/" \o id \o "/root/delta"

\* a default link that is the one of the first drive for every drive
BootLink_of_first_drive == DriveLink(Head(Drives))

\* the link of the default snapshot of the drive at hand
BootLink == DriveLink(drive_id)

\* the reset_link sync_drive_items is called with: the bootstrap URL
reset_link_argument == BootLink

PersistedLink == "delta0"

NextLinks == {"next1"}

\* a server may put any string in @odata.deltaLink, the empty one included
DeltaLinks == {"", "deltaT"}

LocationLink == "fresh"

SyncParent == Parent(Some(DriveRootPrefix \o <<"d">>), "personal")

Tombstone(id) ==
    Item(id, <<"f">>, 0, Parent(None, "personal"), File(None), Some("Exists"))

\* the items the server delivers in a run
SyncItems ==
    { Item("a", <<"f">>, 1, SyncParent, File(None), None),
      Item("b", <<"f">>, 2, SyncParent, File(None), None),
      Tombstone("a") }

\* an item as the server sends it without its parentReference
ItemWithoutParent ==
    <<<<"id", "b">>, <<"name", <<"f">>>>, <<"size", 2>>, <<"file", <<>>>>>>

\* the items of the pages, as the objects of the "value" array
WireItems == {ser_item(item) : item \in SyncItems} \cup {ItemWithoutParent}

\* serde_json::from_str::<SyncPage<Item>>: the value array decodes when
\* every item of it does
de_value(value) ==
    IF \A i \in 1..Len(value) : IsSome(de_item(value[i]))
    THEN Some([i \in 1..Len(value) |-> Unwrap(de_item(value[i]))])
    ELSE None

RECURSIVE SeqsUpTo(_, _)
SeqsUpTo(S, n) ==
    IF n = 0 THEN {<<>>}
    ELSE LET shorter == SeqsUpTo(S, n - 1)
         IN  shorter \cup {Append(q, x) : q \in {r \in shorter : Len(r) = n - 1}, x \in S}

\* the snapshots a run starts from: DriveSnapshot::default, or one loaded
\* from the cache that an earlier run saved
DefaultSnapshot ==
    [delta_link |-> BootLink, state |-> DriveState(0, EmptyItems)]

LoadedSnapshot ==
    [delta_link |-> PersistedLink,
     state |-> DriveState(2 + 1,
        [k \in {"a", "c"} |->
            IF k = "a" THEN Item("a", <<"f">>, 2, SyncParent, File(None), None)
            ELSE Item("c", <<"h">>, 1, SyncParent, File(None), None)])]

StartSnapshots == {DefaultSnapshot, LoadedSnapshot}

IsPage(msg) == IsSome(msg)

RECURSIVE CountItems(_)
CountItems(msgs) ==
    IF msgs = <<>> THEN 0
    ELSE (IF IsPage(Head(msgs)) THEN Len(Unwrap(Head(msgs))) ELSE 0)
         + CountItems(Tail(msgs))

\* how a thread ends
Return(value) == [kind |-> "return", payload |-> "", value |-> value]

Panic(payload, message) == [kind |-> "panic", payload |-> payload, value |-> message]

\* a response: its status, its Retry-After and Location headers, what its
\* body is, and the @odata.deltaLink of the body if it has one
Response(status, retry_after, location, body, delta) ==
    [status |-> status, retry_after |-> retry_after, location |-> location,
     body |-> body, delta_link |-> delta]

\* statuses other than 200, 410 and 401 that have a canonical reason, and one
\* that has none
OtherStatuses == {429, 503}

UnknownStatus == 599

\* the responses with such a status, by status and Retry-After header; the
\* status without a reason fails before the header is looked at
OtherResponses ==
    {<<503, h>> : h \in {"absent", "seconds", "not a number", "not a string"}}
        \cup {<<429, "seconds">>, <<UnknownStatus, "absent">>}

\* the 410 and 401 responses, by status and Location header
ExpiredResponses ==
    {<<410, l>> : l \in {"absent", "invalid", "valid"}} \cup {<<401, "absent">>}

\* the messages and items of one run; a run within main, one whose transport
\* attempts are told apart and one checked for its end get one less of each
MessageBudget == IF mode \in {"main", "get", "join"} THEN MaxMessages - 1 ELSE MaxMessages

ItemBudget == IF mode \in {"main", "get", "join"} THEN MaxItems - 1 ELSE MaxItems

\* the Fetcher stays in its loop
FetchLoop(lnk, count) ==
    /\ f_pc' = "run"
    /\ link' = lnk
    /\ fail_count' = count
    /\ f_exit' = None
    /\ UNCHANGED reset_link

\* the Fetcher thread ends, dropping the Sender
FetchExit(exit) ==
    /\ f_pc' = IF exit.kind = "return" THEN "returned" ELSE "panicked"
    /\ f_exit' = Some(exit)
    /\ UNCHANGED <<link, reset_link, fail_count>>

\* a retry without a cap
retry_without_cap(message) ==
    FetchLoop(link, IF fail_count < RetryCap THEN fail_count + 1 ELSE fail_count)

\* a retry that gives up one failure late
retry_or_panic_one_late(message) ==
    IF fail_count <= RetryCap
    THEN FetchLoop(link, fail_count + 1)
    ELSE FetchExit(Panic("&str", message))

\* a retry that goes back to the bootstrap link
retry_from_reset_link(message) ==
    IF fail_count < RetryCap
    THEN FetchLoop(reset_link, fail_count + 1)
    ELSE FetchExit(Panic("&str", message))

retry_or_panic(message) ==
    IF fail_count < RetryCap
    THEN FetchLoop(link, fail_count + 1)
    ELSE FetchExit(Panic("&str", message))

\* a send that waits until the queue is empty
Send_waits_for_room(msg, then) ==
    IF receiver_alive
    THEN /\ chan = <<>>
         /\ chan' = Append(chan, msg)
         /\ sent' = Append(sent, msg)
         /\ UNCHANGED receiver_alive
         /\ then
    ELSE /\ UNCHANGED chanVars
         /\ FetchExit(Panic("String", "Result::unwrap() on an Err value: SendError"))

\* sender.send(msg).unwrap(), then `then`; a send fails once the Receiver
\* is dropped, and the unwrap panics with a formatted String
Send(msg, then) ==
    IF receiver_alive
    THEN /\ chan' = Append(chan, msg)
         /\ sent' = Append(sent, msg)
         /\ UNCHANGED receiver_alive
         /\ then
    ELSE /\ UNCHANGED chanVars
         /\ FetchExit(Panic("String", "Result::unwrap() on an Err value: SendError"))

\* a page that leaves fail_count as it is
More_keeps_fail_count(next) == FetchLoop(next, fail_count)

\* SyncLink::More(next) => { fail_count = 0; link = next; }
More(next) == FetchLoop(next, 0)

\* a Fetcher that returns the link it requested, not the page's deltaLink
Done_returns_request_link(delta) == FetchExit(Return(link))

\* SyncLink::Done(delta) => return delta
Done(delta) == FetchExit(Return(delta))

Fetching == mode \in {"sync", "main", "get", "join"} /\ f_pc = "run"

\* a backoff that doubles
next_delay_doubling(d) == d * 2

\* delay *= 16
next_delay(d) == d * GetBackoff

\* get is called anew: the loop of fetch_items comes round
GetBegin == retries' = GetRetries /\ delay' = GetDelay /\ slept' = <<>>

\* client.get(uri).send() is an Err with retries left: get sleeps and asks again
GetSendError ==
    /\ mode = "get"
    /\ f_pc = "run"
    /\ retries > 0
    /\ slept' = Append(slept, delay)
    /\ retries' = retries - 1
    /\ delay' = next_delay(delay)
    /\ UNCHANGED <<fetchVars, chanVars, applyVars, stateVars, mode, storVars, bucketVars,
                   mainVars, decodeVars>>

\* client.get(uri).send() is an Err with no retry left: get returns the error,
\* which fetch_items counts as a failure
GetError ==
    /\ mode = "get"
    /\ f_pc = "run"
    /\ retries = 0
    /\ last_response' = None
    /\ retry_or_panic("Error fetching items")
    /\ IF fail_count < RetryCap THEN GetBegin ELSE UNCHANGED getVars
    /\ UNCHANGED <<chanVars, applyVars, stateVars, mode, storVars, bucketVars, mainVars,
                   decodeVars>>

\* get() gave up: the transport failed on the request and on its 3 retries,
\* taken as one step where the attempts of get are not told apart
FetchTransportError ==
    /\ Fetching
    /\ mode # "get"
    /\ last_response' = None
    /\ retry_or_panic("Error fetching items")
    /\ UNCHANGED <<chanVars, applyVars, stateVars, mode, storVars, bucketVars, mainVars, decodeVars, getVars>>

\* 200 OK with a page that parses
FetchPage ==
    /\ Fetching
    /\ Len(sent) < MessageBudget
    /\ \E value \in SeqsUpTo(WireItems, ItemBudget - CountItems(sent)) :
          IF ~IsSome(de_value(value))
          THEN /\ last_response' =
                     Some(Response(200, "absent", "absent", "page with a bad item", None))
               /\ retry_or_panic("Could not deserialize sync page")
               /\ UNCHANGED chanVars
          ELSE LET batch == Unwrap(de_value(value))
               IN  \/ \E next \in NextLinks :
                         /\ last_response' =
                               Some(Response(200, "absent", "absent", "page", None))
                         /\ Send(Some(batch), More(next))
                   \/ \E delta \in DeltaLinks :
                         /\ last_response' =
                               Some(Response(200, "absent", "absent", "page", Some(delta)))
                         /\ Send(Some(batch), Done(delta))
    /\ GetBegin
    /\ UNCHANGED <<applyVars, stateVars, mode, storVars, bucketVars, mainVars, decodeVars>>

\* 200 OK whose body cannot be read to the end
FetchPartial ==
    /\ Fetching
    /\ last_response' = Some(Response(200, "absent", "absent", "cut short", None))
    /\ retry_or_panic("Partial response")
    /\ GetBegin
    /\ UNCHANGED <<chanVars, applyVars, stateVars, mode, storVars, bucketVars, mainVars, decodeVars>>

\* 200 OK whose body is no SyncPage
FetchUnparsable ==
    /\ Fetching
    /\ last_response' = Some(Response(200, "absent", "absent", "no page", None))
    /\ retry_or_panic("Could not deserialize sync page")
    /\ GetBegin
    /\ UNCHANGED <<chanVars, applyVars, stateVars, mode, storVars, bucketVars, mainVars, decodeVars>>

\* a restart that always goes back to reset_link
ExpiredLink_ignores_location(location) == reset_link

\* link = match response.headers().get("Location"): the header's value if it
\* is there and is a string, else reset_link
ExpiredLink(location) == IF location = "valid" THEN LocationLink ELSE reset_link

\* 410 Gone or 401 Unauthorized: the Location header is absent, not a
\* string, or a link
FetchExpired ==
    /\ Fetching
    /\ Len(sent) < MessageBudget
    /\ \E status \in {410, 401}, location \in {"absent", "invalid", "valid"} :
          /\ <<status, location>> \in ExpiredResponses
          /\ last_response' = Some(Response(status, "absent", location, "error", None))
          /\ Send(None, FetchLoop(ExpiredLink(location), fail_count))
    /\ GetBegin
    /\ UNCHANGED <<applyVars, stateVars, mode, storVars, bucketVars, mainVars, decodeVars>>

\* any other status
FetchOther ==
    /\ Fetching
    /\ \E status \in OtherStatuses \cup {UnknownStatus},
          retry_header \in {"absent", "seconds", "not a number", "not a string"} :
          /\ <<status, retry_header>> \in OtherResponses
          /\ last_response' = Some(Response(status, retry_header, "absent", "error", None))
          /\ IF status = UnknownStatus
             THEN FetchExit(Panic("&str", "Option::unwrap() on a None value"))
             ELSE IF retry_header = "not a string"
             THEN FetchExit(Panic("String", "Result::unwrap() on an Err value: ToStrError"))
             ELSE IF retry_header = "not a number"
             THEN FetchExit(Panic("String", "Result::unwrap() on an Err value: ParseIntError"))
             ELSE IF retry_header = "seconds"
             THEN FetchLoop(link, fail_count)
             ELSE retry_or_panic("Unexpected response")
    /\ GetBegin
    /\ UNCHANGED <<chanVars, applyVars, stateVars, mode, storVars, bucketVars, mainVars, decodeVars>>

\* a handler that upserts tombstones too
handle_always_upserts(st, item, checks) == upsert(st, item, checks)

\* ItemHandler::handle
handle(st, item, checks) ==
    IF IsSome(item.deleted) THEN delete(st, item) ELSE upsert(st, item, checks)

\* for item in items.into_iter() { handler.handle(item) }
RECURSIVE HandleAll(_, _, _, _)
HandleAll(st, calls, batch, checks) ==
    IF batch = <<>>
    THEN [state |-> st, calls |-> calls, panic |-> None]
    ELSE LET out == handle(st, Head(batch), checks)
             called == Append(calls, Some(Head(batch)))
         IN  IF IsSome(out.panic)
             THEN [state |-> out.state, calls |-> called, panic |-> out.panic]
             ELSE HandleAll(out.state, called, Tail(batch), checks)

\* one message taken by the Applier: a batch is handled, a None resets
Receive(st, calls, msg, checks) ==
    IF IsPage(msg)
    THEN HandleAll(st, calls, Unwrap(msg), checks)
    ELSE [state |-> reset(st).state, calls |-> Append(calls, None), panic |-> None]

\* receiver.recv() while a message is queued
RecvReady == chan /= <<>>

\* a queue that hands out its newest message first
Recv_newest_first(c) == [msg |-> c[Len(c)], rest |-> SubSeq(c, 1, Len(c) - 1)]

\* Ok(msg) of receiver.recv(): the oldest queued message
Recv(c) == [msg |-> Head(c), rest |-> Tail(c)]

\* a channel whose closure is never seen
RecvDisconnected_never == FALSE

\* a channel whose closure hides the messages still queued
RecvDisconnected_drops_queue == f_pc \in {"returned", "panicked"}

\* receiver.recv() is Err(RecvError): every Sender is gone and nothing is queued
RecvDisconnected == chan = <<>> /\ f_pc \in {"returned", "panicked"}

ApplierRecv ==
    /\ mode \in {"sync", "main", "join"}
    /\ a_pc = "recv"
    /\ RecvReady
    /\ LET out == Receive(state, applied, Recv(chan).msg, overflow_checks)
       IN  /\ state' = out.state
           /\ applied' = out.calls
           /\ main_panic' = out.panic
           /\ IF IsSome(out.panic)
              THEN /\ a_pc' = "panicked"
                   /\ receiver_alive' = FALSE
                   /\ chan' = <<>>
              ELSE /\ a_pc' = "recv"
                   /\ chan' = Recv(chan).rest
                   /\ UNCHANGED receiver_alive
    /\ UNCHANGED <<fetchVars, sent, start, delta_link, sync_result,
                   overflow_checks, last_op, mode, storVars, bucketVars, mainVars, decodeVars, getVars>>

ApplierDisconnected ==
    /\ mode \in {"sync", "main", "join"}
    /\ a_pc = "recv"
    /\ RecvDisconnected
    /\ a_pc' = "join"
    /\ UNCHANGED <<fetchVars, chanVars, applied, start, delta_link, sync_result,
                   stateVars, mode, storVars, bucketVars, mainVars, decodeVars, getVars>>

\* t.join() in sync_drive_items, and sync_items' assignment of the result
Join ==
    /\ mode \in {"sync", "main", "join"}
    /\ a_pc = "join"
    /\ f_pc \in {"returned", "panicked"}
    /\ LET exit == Unwrap(f_exit)
       IN  IF exit.kind = "return"
           THEN /\ delta_link' = exit.value
                /\ sync_result' = Some([ok |-> TRUE, value |-> exit.value])
                /\ a_pc' = "returned"
                /\ UNCHANGED main_panic
           ELSE IF exit.payload = "&str"
           THEN /\ sync_result' = Some([ok |-> FALSE, value |-> exit.value])
                /\ a_pc' = "returned"
                /\ UNCHANGED <<delta_link, main_panic>>
           ELSE /\ main_panic' = Some(exit.value)
                /\ a_pc' = "panicked"
                /\ UNCHANGED <<delta_link, sync_result>>
    /\ receiver_alive' = FALSE
    /\ UNCHANGED <<fetchVars, chan, sent, applied, start,
                   overflow_checks, state, last_op, mode, storVars, bucketVars, mainVars, decodeVars, getVars>>

InitSync ==
    /\ mode = "sync"
    /\ MainIdle
    /\ overflow_checks = FALSE
    /\ start \in StartSnapshots
    /\ state = start.state
    /\ delta_link = start.delta_link
    /\ link = start.delta_link
    /\ reset_link = reset_link_argument
    /\ main_panic = None
    /\ last_op = NoOp
    /\ f_pc = "run"
    /\ fail_count = 0
    /\ f_exit = None
    /\ last_response = None
    /\ chan = <<>>
    /\ receiver_alive = TRUE
    /\ sent = <<>>
    /\ a_pc = "recv"
    /\ applied = <<>>
    /\ sync_result = None
    /\ GetIdle
    /\ StorageIdle
    /\ BucketIdle

NextSync ==
    \/ FetchTransportError
    \/ FetchPage
    \/ FetchPartial
    \/ FetchUnparsable
    \/ FetchExpired
    \/ FetchOther
    \/ ApplierRecv
    \/ ApplierDisconnected
    \/ Join

SpecSync == InitSync /\ [][NextSync]_vars

\* a step of the Fetcher thread: one request and what fetch_items does with
\* its outcome
FetchStep ==
    \/ FetchTransportError
    \/ FetchPage
    \/ FetchPartial
    \/ FetchUnparsable
    \/ FetchExpired
    \/ FetchOther

\* a step of the thread that called sync_drive_items
ApplierStep == ApplierRecv \/ ApplierDisconnected \/ Join

InitJoin ==
    /\ mode = "join"
    /\ MainIdle
    /\ overflow_checks = FALSE
    /\ start \in StartSnapshots
    /\ state = start.state
    /\ delta_link = start.delta_link
    /\ link = start.delta_link
    /\ reset_link = reset_link_argument
    /\ main_panic = None
    /\ last_op = NoOp
    /\ f_pc = "run"
    /\ fail_count = 0
    /\ f_exit = None
    /\ last_response = None
    /\ chan = <<>>
    /\ receiver_alive = TRUE
    /\ sent = <<>>
    /\ a_pc = "recv"
    /\ applied = <<>>
    /\ sync_result = None
    /\ GetIdle
    /\ StorageIdle
    /\ BucketIdle

\* sync_drive_items with the calling thread scheduled until it is through: it
\* is a running thread, whatever the Fetcher and the server do
SpecJoin == InitJoin /\ [][NextSync]_vars /\ WF_vars(ApplierStep)

\* fetch_items with each attempt of get a step of its own, from the bootstrap
\* link
InitGet ==
    /\ mode = "get"
    /\ MainIdle
    /\ overflow_checks = FALSE
    /\ start = DefaultSnapshot
    /\ state = start.state
    /\ delta_link = start.delta_link
    /\ link = start.delta_link
    /\ reset_link = reset_link_argument
    /\ main_panic = None
    /\ last_op = NoOp
    /\ f_pc = "run"
    /\ fail_count = 0
    /\ f_exit = None
    /\ last_response = None
    /\ chan = <<>>
    /\ receiver_alive = TRUE
    /\ sent = <<>>
    /\ a_pc = "recv"
    /\ applied = <<>>
    /\ sync_result = None
    /\ GetIdle
    /\ StorageIdle
    /\ BucketIdle

NextGet ==
    \/ GetSendError
    \/ GetError
    \/ FetchPage
    \/ FetchPartial
    \/ FetchUnparsable
    \/ FetchExpired
    \/ FetchOther

SpecGet == InitGet /\ [][NextGet]_vars

\* fetch_items on its own thread, scheduled until it ends, with the Receiver
\* alive and every request getting some outcome
SpecFetcher == InitSync /\ [][FetchStep]_vars /\ WF_vars(FetchStep)

(***************************************************************************)
(* Storage (src/src/storage.rs) on the files of the cache directory        *)
(***************************************************************************)
\* rng.gen_range(1000..10000), of which the model draws the first RngDraws
RngLow == 1000

RngHigh == 10000

RngDraws == 2

\* the calls of save in one run of the model
MaxSaves == 2

RngInts == {i \in RngLow..(RngLow + RngDraws - 1) : i < RngHigh}

Digit(d) == <<"0", "1", "2", "3", "4", "5", "6", "7", "8", "9">>[d + 1]

\* int.to_string()
RECURSIVE to_string(_)
to_string(n) == IF n < 10 THEN <<Digit(n)>> ELSE Append(to_string(n \div 10), Digit(n % 10))

\* a path is its file stem and its extension; a path such as "/" has neither
PathBuf(stem, ext) == [stem |-> stem, ext |-> ext]

\* PathBuf::set_extension: false when the path has no file name
set_extension(p, ext) ==
    IF p.stem = <<>> THEN [ok |-> FALSE, path |-> p]
    ELSE [ok |-> TRUE, path |-> PathBuf(p.stem, ext)]

PlainPath == PathBuf(<<"drive_d">>, <<>>)

NumberedPath == PathBuf(<<"drive_d">>, to_string(RngLow))

RootPath == PathBuf(<<>>, <<>>)

StorPaths == {None, Some(PlainPath), Some(NumberedPath), Some(RootPath)}

\* the snapshots saved
StorValueA ==
    [delta_link |-> "deltaT",
     state |-> DriveState(1, [k \in {"a"} |->
        Item("a", <<"f">>, 1, SyncParent,
             File(Some(Hash(Some("X"), None))), None)])]

StorValueB ==
    [delta_link |-> "deltaU",
     state |-> DriveState(0, [k \in {"b"} |->
        Item("b", <<"g">>, 2, Parent(None, "business"), Folder, None)])]

StorValues == {StorValueA, StorValueB}

Garbage == <<<<"garbage">>>>

Exists(files, p) == p \in DOMAIN files

ReadFile(files, p) == IF Exists(files, p) THEN Some(files[p]) ELSE None

WriteFile(files, p, bytes) ==
    [k \in DOMAIN files \cup {p} |-> IF k = p THEN bytes ELSE files[k]]

\* a remove_file that reports success and removes nothing
RemoveFile_keeps_file(files, p) == files

\* std::fs::remove_file
RemoveFile(files, p) == [k \in DOMAIN files \ {p} |-> files[k]]

\* a rename that leaves a file already at `to` as it is
Rename_keeps_existing_target(files, from, to) ==
    IF to \in DOMAIN files THEN files
    ELSE [k \in (DOMAIN files \ {from}) \cup {to} |->
            IF k = to THEN files[from] ELSE files[k]]

\* std::fs::rename: the file at `from` replaces what is at `to`
Rename(files, from, to) ==
    IF from = to THEN files
    ELSE [k \in (DOMAIN files \ {from}) \cup {to} |->
            IF k = to THEN files[from] ELSE files[k]]

\* Storage::load
load(files, p) ==
    IF p = None THEN None
    ELSE IF ~Exists(files, Unwrap(p)) THEN None
    ELSE de_snapshot(files[Unwrap(p)])

\* how a call of save ended, and whether it removed its temporary file
Saved(outcome, removed) == [outcome |-> outcome, removed |-> removed]

Load ==
    /\ mode = "storage"
    /\ s_pc = "idle"
    /\ load_result' = Some(load(fs, path))
    /\ UNCHANGED <<path, fs, s_pc, tmp_path, saving, wrote, target_before, saves, last_save,
                   mode, stateVars, syncVars, bucketVars, mainVars, decodeVars, getVars>>

\* save up to File::create(&tmp_path)
SaveBegin(x) ==
    /\ s_pc = "idle"
    /\ saves < MaxSaves
    /\ saves' = saves + 1
    /\ load_result' = None
    /\ saving' = Some(x)
    /\ wrote' = "nothing"
    /\ IF path = None
       THEN /\ last_save' = Saved("no path", "n/a")
            /\ UNCHANGED <<fs, s_pc, tmp_path, target_before, main_panic>>
       ELSE \E int \in RngInts :
              LET tmp == set_extension(Unwrap(path), to_string(int))
              IN  /\ target_before' = ReadFile(fs, Unwrap(path))
                  /\ tmp_path' = Some(tmp.path)
                  /\ IF ~tmp.ok
                     THEN /\ main_panic' = Some("assertion failed: tmp_path.set_extension(int.to_string())")
                          /\ s_pc' = "panicked"
                          /\ UNCHANGED <<fs, last_save>>
                     ELSE /\ UNCHANGED main_panic
                          /\ \E created \in BOOLEAN :
                                IF created
                                THEN /\ fs' = WriteFile(fs, tmp.path, <<>>)
                                     /\ s_pc' = "serialize"
                                     /\ UNCHANGED last_save
                                ELSE /\ last_save' = Saved("create failed", "n/a")
                                     /\ UNCHANGED <<fs, s_pc>>
    /\ UNCHANGED <<path, mode, overflow_checks, state, last_op, syncVars, bucketVars>>

SaveCreate ==
    /\ mode = "storage"
    /\ \E x \in StorValues : SaveBegin(x)
    /\ UNCHANGED <<mainVars, decodeVars, getVars>>

\* serde_cbor::to_writer into the BufWriter, and the BufWriter dropped: its
\* drop flushes what is still buffered and ignores a failure to
SaveSerialize ==
    /\ mode \in {"storage", "main"}
    /\ s_pc = "serialize"
    /\ LET bytes == ser_snapshot(Unwrap(saving))
       IN  \/ /\ fs' = WriteFile(fs, Unwrap(tmp_path), bytes)
              /\ wrote' = "all"
              /\ s_pc' = "rename"
           \/ \E part \in Truncations(bytes) :
                 /\ fs' = WriteFile(fs, Unwrap(tmp_path), part)
                 /\ wrote' = "write failed"
                 /\ s_pc' = "remove"
           \/ \E part \in Truncations(bytes) :
                 /\ fs' = WriteFile(fs, Unwrap(tmp_path), part)
                 /\ wrote' = "flush failed"
                 /\ s_pc' = "rename"
    /\ UNCHANGED <<path, tmp_path, saving, load_result, last_save, target_before, saves,
                   mode, stateVars, syncVars, bucketVars, mainVars, decodeVars, getVars>>

\* a rename whose error is unwrapped
SaveRename_unwraps ==
    /\ mode \in {"storage", "main"}
    /\ s_pc = "rename"
    /\ \/ /\ fs' = Rename(fs, Unwrap(tmp_path), Unwrap(path))
          /\ s_pc' = "idle"
          /\ last_save' = Saved("renamed", "n/a")
          /\ UNCHANGED main_panic
       \/ /\ s_pc' = "panicked"
          /\ main_panic' = Some("Result::unwrap() on an Err value")
          /\ UNCHANGED <<fs, last_save>>
    /\ UNCHANGED <<path, tmp_path, saving, load_result, wrote, target_before, saves,
                   mode, overflow_checks, state, last_op, syncVars, bucketVars, mainVars,
                   decodeVars, getVars>>

\* std::fs::rename(&tmp_path, path)
SaveRename ==
    /\ mode \in {"storage", "main"}
    /\ s_pc = "rename"
    /\ \/ /\ fs' = Rename(fs, Unwrap(tmp_path), Unwrap(path))
          /\ s_pc' = "idle"
          /\ last_save' = Saved("renamed", "n/a")
       \/ /\ s_pc' = "remove"
          /\ UNCHANGED <<fs, last_save>>
    /\ UNCHANGED <<path, tmp_path, saving, load_result, wrote, target_before, saves,
                   mode, stateVars, syncVars, bucketVars, mainVars, decodeVars, getVars>>

\* tmp_path was created but not renamed: std::fs::remove_file(&tmp_path)
SaveRemove ==
    /\ mode \in {"storage", "main"}
    /\ s_pc = "remove"
    /\ LET failed == IF wrote = "write failed" THEN "serialize failed" ELSE "rename failed"
       IN  \/ /\ fs' = RemoveFile(fs, Unwrap(tmp_path))
              /\ last_save' = Saved(failed, "yes")
           \/ /\ last_save' = Saved(failed, "no")
              /\ UNCHANGED fs
    /\ s_pc' = "idle"
    /\ UNCHANGED <<path, tmp_path, saving, load_result, wrote, target_before, saves,
                   mode, stateVars, syncVars, bucketVars, mainVars, decodeVars, getVars>>

\* the cache directory before the run: the target and one other file, each
\* absent, a snapshot saved earlier, or damaged
InitFiles ==
    LET contents == {None, Some(ser_snapshot(StorValueB)), Some(Garbage)}
    IN  {[k \in {n \in {PlainPath, NumberedPath} :
                    IsSome(IF n = PlainPath THEN c1 ELSE c2)} |->
            Unwrap(IF k = PlainPath THEN c1 ELSE c2)] :
         c1 \in contents, c2 \in contents}

InitStorage ==
    /\ mode = "storage"
    /\ overflow_checks = FALSE
    /\ state = DriveState(0, EmptyItems)
    /\ main_panic = None
    /\ last_op = NoOp
    /\ SyncIdle
    /\ path \in StorPaths
    /\ fs \in InitFiles
    /\ s_pc = "idle"
    /\ tmp_path = None
    /\ saving = None
    /\ load_result = None
    /\ last_save = Saved("none", "n/a")
    /\ wrote = "nothing"
    /\ target_before = None
    /\ saves = 0
    /\ BucketIdle
    /\ MainIdle

NextStorage == Load \/ SaveCreate \/ SaveSerialize \/ SaveRename \/ SaveRemove

SpecStorage == InitStorage /\ [][NextStorage]_vars

\* the cache file before the run: absent, saved by an earlier run, damaged, or
\* cut short
MainFiles ==
    {<<>>, WriteFile(<<>>, PlainPath, ser_snapshot(LoadedSnapshot)),
     WriteFile(<<>>, PlainPath, Garbage),
     WriteFile(<<>>, PlainPath,
               SubSeq(ser_snapshot(LoadedSnapshot), 1,
                      Len(ser_snapshot(LoadedSnapshot)) - 1))}

(***************************************************************************)
(* main (src/src/main.rs): load the cache, sync, save the cached snapshot  *)
(***************************************************************************)
\* cache.load().unwrap_or_else(|| DriveSnapshot::default(drive_id)), and the
\* call of sync_items up to the spawn of the Fetcher
MainLoad ==
    /\ mode = "main"
    /\ m_pc = "load"
    /\ LET loaded == load(fs, path)
           snapshot == IF IsSome(loaded) THEN Unwrap(loaded) ELSE DefaultSnapshot
       IN  /\ load_result' = Some(loaded)
           /\ start' = snapshot
           /\ state' = snapshot.state
           /\ delta_link' = snapshot.delta_link
           /\ link' = snapshot.delta_link
    /\ reset_link' = reset_link_argument
    /\ f_pc' = "run"
    /\ a_pc' = "recv"
    /\ receiver_alive' = TRUE
    /\ m_pc' = "sync"
    /\ UNCHANGED <<fail_count, f_exit, last_response, chan, sent, applied, sync_result,
                   path, fs, s_pc, tmp_path, saving, last_save, wrote, target_before,
                   saves, overflow_checks, main_panic, last_op, mode, bucketVars,
                   drive_id, decodeVars, getVars>>

\* an unwrap that takes an Err for an Ok
is_ok_also_for_err(result) == TRUE

\* Result::unwrap: whether the result is an Ok
is_ok(result) == result.ok

\* sync_items(..).unwrap() on an Err
MainUnwrapErr ==
    /\ mode = "main"
    /\ m_pc = "sync"
    /\ a_pc = "returned"
    /\ ~is_ok(Unwrap(sync_result))
    /\ main_panic' = Some("Result::unwrap() on an Err value")
    /\ m_pc' = "panicked"
    /\ UNCHANGED <<overflow_checks, state, last_op, mode, syncVars, storVars, bucketVars,
                   drive_id, decodeVars, getVars>>

\* a snapshot that keeps the delta link it was loaded with
SyncedSnapshot_with_start_link == [delta_link |-> start.delta_link, state |-> state]

\* Ok(snapshot) of sync_items: the delta link sync_drive_items returned and
\* the state the handler was given
SyncedSnapshot == [delta_link |-> delta_link, state |-> state]

\* sync_items(..).unwrap() on an Ok, and cache.save(&snapshot) up to
\* File::create
MainSave ==
    /\ mode = "main"
    /\ m_pc = "sync"
    /\ a_pc = "returned"
    /\ is_ok(Unwrap(sync_result))
    /\ SaveBegin(SyncedSnapshot)
    /\ m_pc' = "save"
    /\ UNCHANGED <<drive_id, decodeVars, getVars>>

\* a loop that goes on to the next drive while this one is still syncing
IterationDone_while_syncing == m_pc \in {"sync", "save"} /\ s_pc = "idle"

\* cache.save(&snapshot) has returned; what is left of the iteration neither
\* touches a file nor a thread
IterationDone == m_pc = "save" /\ s_pc = "idle"

\* analyze_items(&snapshot.state.items) up to its loop
MainAnalyze ==
    /\ mode = "main"
    /\ IterationDone
    /\ b_pc = "idle"
    /\ names_by_hash' = state.items
    /\ todo' = DOMAIN state.items
    /\ b_pc' = "loop"
    /\ file_count' = 0
    /\ folder_count' = 0
    /\ names_by_hash_by_size' = <<>>
    /\ UNCHANGED <<mode, stateVars, syncVars, storVars, mainVars, decodeVars, getVars>>

\* println! of folder_count, file_count and the duplicates
MainReport ==
    /\ mode = "main"
    /\ IterationDone
    /\ b_pc = "returned"
    /\ m_pc' = "report"
    /\ UNCHANGED <<mode, stateVars, syncVars, storVars, bucketVars, drive_id, decodeVars,
                   getVars>>

\* for drive in ..: the next drive, whose cache file is another one (fs holds
\* the files of the drive at hand)
MainNextDrive ==
    /\ mode = "main"
    /\ m_pc = "report"
    /\ \E i \in 1..(Len(Drives) - 1) :
          /\ drive_id = Drives[i]
          /\ drive_id' = Drives[i + 1]
    /\ m_pc' = "load"
    /\ state' = DriveState(0, EmptyItems)
    /\ f_pc' = "idle"
    /\ link' = ""
    /\ reset_link' = ""
    /\ fail_count' = 0
    /\ f_exit' = None
    /\ last_response' = None
    /\ chan' = <<>>
    /\ receiver_alive' = FALSE
    /\ sent' = <<>>
    /\ a_pc' = "idle"
    /\ applied' = <<>>
    /\ start' = None
    /\ delta_link' = ""
    /\ sync_result' = None
    /\ fs' \in MainFiles
    /\ path = None => fs' = <<>>
    /\ tmp_path' = None
    /\ saving' = None
    /\ load_result' = None
    /\ last_save' = Saved("none", "n/a")
    /\ wrote' = "nothing"
    /\ target_before' = None
    /\ saves' = 0
    /\ b_pc' = "idle"
    /\ names_by_hash' = <<>>
    /\ todo' = {}
    /\ file_count' = 0
    /\ folder_count' = 0
    /\ names_by_hash_by_size' = <<>>
    /\ UNCHANGED <<mode, overflow_checks, main_panic, last_op, path, s_pc, decodeVars,
                   getVars>>

InitMain ==
    /\ mode = "main"
    /\ overflow_checks = FALSE
    /\ state = DriveState(0, EmptyItems)
    /\ main_panic = None
    /\ last_op = NoOp
    /\ SyncIdle
    /\ path \in {None, Some(PlainPath)}
    /\ fs \in MainFiles
    /\ path = None => fs = <<>>
    /\ s_pc = "idle"
    /\ tmp_path = None
    /\ saving = None
    /\ load_result = None
    /\ last_save = Saved("none", "n/a")
    /\ wrote = "nothing"
    /\ target_before = None
    /\ saves = 0
    /\ BucketIdle
    /\ m_pc = "load"
    /\ drive_id = Head(Drives)
    /\ wire = <<>>
    /\ decoded = None

(***************************************************************************)
(* Decoding one drive item of a page (src/src/item.rs, with its tests)     *)
(***************************************************************************)
\* the parts an item is sent with or without
WireSizes == {<<>>, <<<<"size", 2>>>>}

WireParents ==
    { <<>>,
      <<<<"parentReference", <<<<"driveType", "personal">>>>>>>>,
      <<<<"parentReference",
          <<<<"driveId", "D">>, <<"path", DriveRootPrefix \o <<"d">>>>,
            <<"driveType", "business">>>>>>>> }

WireHashes == <<<<"crc32Hash", "C">>, <<"quickXorHash", "Y">>, <<"sha1Hash", "X">>>>

\* the facets of an item: none, one, or two of them
WireFacets ==
    { <<>>,
      <<<<"file", <<>>>>>>,
      <<<<"file", <<<<"hashes", <<<<"sha1Hash", "X">>>>>>>>>>>>,
      <<<<"file", <<<<"mimeType", "text/plain">>, <<"hashes", WireHashes>>>>>>>>,
      <<<<"folder", <<>>>>>>,
      <<<<"folder", <<<<"childCount", 3>>>>>>>>,
      <<<<"package", <<<<"type", "oneNote">>>>>>>>,
      <<<<"folder", <<<<"childCount", 3>>>>>>, <<"package", <<<<"type", "oneNote">>>>>>>>,
      <<<<"file", <<>>>>, <<"folder", <<>>>>>> }

WireDeleted == {<<>>, <<<<"deleted", <<>>>>>>, <<<<"deleted", <<<<"state", "deleted">>>>>>>>}

WireExtras == {<<>>, <<<<"@odata.type", "#microsoft.graph.driveItem">>>>}

WireObjects ==
    {<<<<"id", "ID">>>> \o extra \o <<<<"name", <<"NAME">>>>>> \o sz \o parent
        \o facets \o deleted :
     extra \in WireExtras, sz \in WireSizes, parent \in WireParents,
     facets \in WireFacets, deleted \in WireDeleted}

\* serde_json::from_str::<Item>
Decode ==
    /\ mode = "decode"
    /\ decoded = None
    /\ decoded' = Some(de_item(wire))
    /\ UNCHANGED <<wire, mode, stateVars, syncVars, storVars, bucketVars, mainVars, getVars>>

InitDecode ==
    /\ mode = "decode"
    /\ overflow_checks = FALSE
    /\ state = DriveState(0, EmptyItems)
    /\ main_panic = None
    /\ last_op = NoOp
    /\ SyncIdle
    /\ StorageIdle
    /\ BucketIdle
    /\ m_pc = "idle"
    /\ drive_id = Head(Drives)
    /\ wire \in WireObjects
    /\ decoded = None

NextDecode == Decode

SpecDecode == InitDecode /\ [][NextDecode]_vars

(***************************************************************************)
(* bucket_by_size (src/src/size.rs)                                        *)
(***************************************************************************)
Sha1(s) == [tag |-> "Sha1", payload |-> s]

QuickXor(s) == [tag |-> "QuickXor", payload |-> s]

StartsWith(s, pat) == Len(s) >= Len(pat) /\ SubSeq(s, 1, Len(pat)) = pat

\* str::ends_with
EndsWith(s, pat) ==
    Len(s) >= Len(pat) /\ SubSeq(s, Len(s) - Len(pat) + 1, Len(s)) = pat

\* str::contains
Contains(s, pat) ==
    \E i \in 1..(Len(s) - Len(pat) + 1) : SubSeq(s, i, i + Len(pat) - 1) = pat

\* str::trim_start_matches: the prefix is removed as often as it repeats
RECURSIVE trim_start_matches(_, _)
trim_start_matches(s, pat) ==
    IF pat # <<>> /\ StartsWith(s, pat)
    THEN trim_start_matches(SubSeq(s, Len(pat) + 1, Len(s)), pat)
    ELSE s

ignore_path(dirname, basename) ==
    /\ EndsWith(basename, <<".svn-base">>)
    /\ Contains(dirname, <<"/", ".svn", "/", "pristine", "/">>)

\* a choice of hash that takes the sha1 when there is one, the quickXor otherwise
item_hash_by_presence(item) ==
    IF ~IsSome(item.item_type.hashes) THEN None
    ELSE LET hashes == Unwrap(item.item_type.hashes)
         IN  IF IsSome(hashes.sha) THEN Some([tag |-> "Sha1", payload |-> Unwrap(hashes.sha)])
             ELSE IF IsSome(hashes.xor)
             THEN Some([tag |-> "QuickXor", payload |-> Unwrap(hashes.xor)])
             ELSE None

\* the match on hashes and parent.drive_type: None where the loop continues
item_hash(item) ==
    IF ~IsSome(item.item_type.hashes) THEN None
    ELSE LET hashes == Unwrap(item.item_type.hashes)
         IN  IF item.parent.drive_type = "personal"
             THEN (IF IsSome(hashes.sha) THEN Some(Sha1(Unwrap(hashes.sha))) ELSE None)
             ELSE IF item.parent.drive_type \in {"business", "documentLibrary"}
             THEN (IF IsSome(hashes.xor) THEN Some(QuickXor(Unwrap(hashes.xor))) ELSE None)
             ELSE None

\* an insert that puts a fresh list under the key each time
push_name_replacing_list(out, sz, hash, name) ==
    LET inner == IF sz \in DOMAIN out THEN out[sz] ELSE <<>>
    IN  [s \in DOMAIN out \cup {sz} |->
            IF s = sz
            THEN [h \in DOMAIN inner \cup {hash} |->
                    IF h = hash THEN <<name>> ELSE inner[h]]
            ELSE out[s]]

\* entry(item.size).or_insert_with(HashMap::new), entry(hash).or_insert_with(Vec::new),
\* and the push
push_name(out, sz, hash, name) ==
    LET inner == IF sz \in DOMAIN out THEN out[sz] ELSE <<>>
        v == IF hash \in DOMAIN inner THEN inner[hash] ELSE <<>>
    IN  [s \in DOMAIN out \cup {sz} |->
            IF s = sz
            THEN [h \in DOMAIN inner \cup {hash} |->
                    IF h = hash THEN Append(v, name) ELSE inner[h]]
            ELSE out[s]]

\* format!("{}/{}", dirname, item.name)
format_name(dirname, name) == dirname \o <<"/">> \o name

\* the items the model buckets
MaxBucketItems == 3

BucketIds == {<<"a", "b", "c", "d">>[i] : i \in 1..MaxBucketItems}

BucketDir == Some(DriveRootPrefix \o <<"d">>)

PristineDir == Some(DriveRootPrefix \o <<"p", "/", ".svn", "/", "pristine", "/", "ab">>)

RootPristineDir == Some(DriveRootPrefix \o <<".svn", "/", "pristine", "/", "ab">>)

Shape(name, sz, parent, item_type) ==
    [name |-> name, size |-> sz, parent |-> parent, item_type |-> item_type]

BothHashes == File(Some(Hash(Some("X"), Some("Y"))))

OnlySha == File(Some(Hash(Some("X"), None)))

OnlyXor == File(Some(Hash(None, Some("X"))))

BucketShapes ==
    { Shape(<<"f">>, 1, Parent(BucketDir, "personal"), OnlySha),
      Shape(<<"g">>, 1, Parent(BucketDir, "business"), OnlyXor),
      Shape(<<"h">>, 2, Parent(BucketDir, "personal"), BothHashes),
      Shape(<<"h">>, 1, Parent(BucketDir, "documentLibrary"), BothHashes),
      Shape(<<"f">>, 1, Parent(BucketDir, "business"), OnlySha),
      Shape(<<"f">>, 1, Parent(BucketDir, "personal"), OnlyXor),
      Shape(<<"f">>, 1, Parent(BucketDir, "personal"), File(None)),
      Shape(<<"f">>, 1, Parent(None, "personal"), OnlySha),
      Shape(<<"f">>, 1, Parent(BucketDir, "other"), BothHashes),
      Shape(<<"f", ".svn-base">>, 1, Parent(PristineDir, "personal"), OnlySha),
      Shape(<<"f", ".svn-base">>, 1, Parent(RootPristineDir, "personal"), OnlySha),
      Shape(<<"f">>, 1, Parent(PristineDir, "personal"), OnlySha),
      Shape(<<"f">>, 1, Parent(Some(<<"/", "drive", "/", "root:">>), "personal"), OnlySha),
      Shape(<<"d">>, 0, Parent(BucketDir, "personal"), Folder),
      Shape(<<"n">>, 1, Parent(BucketDir, "personal"), Package) }

\* the map of the items of these shapes under these ids
BucketInput(ids, shape) ==
    [id \in ids |->
        Item(id, shape[id].name, shape[id].size, shape[id].parent,
             shape[id].item_type, None)]

\* a loop that counts a file only once it has listed it
BucketVisit_counts_listed_files ==
    /\ mode \in {"bucket", "main"}
    /\ b_pc = "loop"
    /\ \E id \in todo :
          LET item == names_by_hash[id]
              dirname == trim_start_matches(Unwrap(item.parent.path), DriveRootPrefix)
              listed == /\ IsFile(item)
                        /\ IsSome(item.parent.path)
                        /\ ~ignore_path(dirname, item.name)
                        /\ IsSome(item_hash(item))
          IN  /\ todo' = todo \ {id}
              /\ file_count' = IF listed THEN file_count + 1 ELSE file_count
              /\ folder_count' = IF IsFile(item) THEN folder_count ELSE folder_count + 1
              /\ names_by_hash_by_size' =
                    IF listed
                    THEN push_name(names_by_hash_by_size, item.size,
                                   Unwrap(item_hash(item)),
                                   format_name(dirname, item.name))
                    ELSE names_by_hash_by_size
    /\ UNCHANGED <<b_pc, names_by_hash, mode, stateVars, syncVars, storVars, mainVars, decodeVars, getVars>>

\* one turn of the loop over names_by_hash.values(), which a HashMap yields
\* in an order of its own
BucketVisit ==
    /\ mode \in {"bucket", "main"}
    /\ b_pc = "loop"
    /\ \E id \in todo :
          LET item == names_by_hash[id]
              dirname == trim_start_matches(Unwrap(item.parent.path), DriveRootPrefix)
          IN  /\ todo' = todo \ {id}
              /\ IF IsFile(item)
                 THEN /\ file_count' = file_count + 1
                      /\ UNCHANGED folder_count
                      /\ IF ~IsSome(item.parent.path) THEN UNCHANGED names_by_hash_by_size
                         ELSE IF ignore_path(dirname, item.name)
                         THEN UNCHANGED names_by_hash_by_size
                         ELSE IF ~IsSome(item_hash(item))
                         THEN UNCHANGED names_by_hash_by_size
                         ELSE names_by_hash_by_size' =
                                 push_name(names_by_hash_by_size, item.size,
                                           Unwrap(item_hash(item)),
                                           format_name(dirname, item.name))
                 ELSE /\ folder_count' = folder_count + 1
                      /\ UNCHANGED <<file_count, names_by_hash_by_size>>
    /\ UNCHANGED <<b_pc, names_by_hash, mode, stateVars, syncVars, storVars, mainVars, decodeVars, getVars>>

\* the loop is over: (file_count, folder_count, names_by_hash_by_size)
BucketReturn ==
    /\ mode \in {"bucket", "main"}
    /\ b_pc = "loop"
    /\ todo = {}
    /\ b_pc' = "returned"
    /\ UNCHANGED <<names_by_hash, todo, file_count, folder_count,
                   names_by_hash_by_size, mode, stateVars, syncVars, storVars, mainVars, decodeVars, getVars>>

InitBucket ==
    /\ mode = "bucket"
    /\ overflow_checks = FALSE
    /\ state = DriveState(0, EmptyItems)
    /\ main_panic = None
    /\ last_op = NoOp
    /\ SyncIdle
    /\ StorageIdle
    /\ \E ids \in SUBSET BucketIds :
          \E shape \in [ids -> BucketShapes] :
             names_by_hash = BucketInput(ids, shape)
    /\ todo = DOMAIN names_by_hash
    /\ b_pc = "loop"
    /\ file_count = 0
    /\ folder_count = 0
    /\ names_by_hash_by_size = <<>>
    /\ MainIdle

NextBucket == BucketVisit \/ BucketReturn

SpecBucket == InitBucket /\ [][NextBucket]_vars

\* main, with analyze_items run by the loop of bucket_by_size
NextMain ==
    \/ MainLoad
    \/ NextSync
    \/ MainUnwrapErr
    \/ MainSave
    \/ SaveSerialize
    \/ SaveRename
    \/ SaveRemove
    \/ MainAnalyze
    \/ BucketVisit
    \/ BucketReturn
    \/ MainReport
    \/ MainNextDrive

SpecMain == InitMain /\ [][NextMain]_vars

(***************************************************************************)
(* Sums over the items map, as the claims state them                       *)
(***************************************************************************)
RECURSIVE SumSizes(_, _)
SumSizes(its, ids) ==
    IF ids = {} THEN 0
    ELSE LET k == CHOOSE x \in ids : TRUE
         IN  (IF IsFile(its[k]) THEN its[k].size ELSE 0)
             + SumSizes(its, ids \ {k})

FileSum(its) == SumSizes(its, DOMAIN its)

Returned == main_panic = None

\* C1 (as claimed): after every upsert, delete or reset call on a DriveState
\* that started empty, state.size is the sum of the sizes of the File entries
\* of state.items.
C1_SizeIsFileSum == Returned => state.size = FileSum(state.items)

\* C1 (amended): after every call that returns, state.size is that sum modulo
\* 2^64, hence the sum itself whenever the sum fits a u64.
C1_SizeIsFileSumModU64 ==
    Returned => state.size = FileSum(state.items) % (MaxU64 + 1)

C1_Witness ==
    /\ Returned
    /\ last_op.op = "upsert"
    /\ \E k \in DOMAIN state.items : IsFile(state.items[k])
    /\ \E k \in DOMAIN state.items : ~IsFile(state.items[k])
    /\ state.size = FileSum(state.items)
    /\ state.size > 0
(***************************************************************************)
(* The pipeline's history, as the claims state it                          *)
(***************************************************************************)
\* the handler calls a sequence of messages asks for, in order
RECURSIVE Events(_)
Events(msgs) ==
    IF msgs = <<>> THEN <<>>
    ELSE (IF IsPage(Head(msgs))
          THEN [i \in 1..Len(Unwrap(Head(msgs))) |-> Some(Unwrap(Head(msgs))[i])]
          ELSE <<None>>)
         \o Events(Tail(msgs))

IsPrefix(p, q) == Len(p) <= Len(q) /\ SubSeq(q, 1, Len(p)) = p

ResetSent == \E i \in 1..Len(sent) : ~IsPage(sent[i])

LastReset == CHOOSE i \in 1..Len(sent) :
                ~IsPage(sent[i]) /\ \A j \in (i + 1)..Len(sent) : IsPage(sent[j])

\* the items of the pages among the messages sent[j], j in idx
ItemsSent(idx) ==
    UNION {{Unwrap(sent[j])[n] : n \in 1..Len(Unwrap(sent[j]))} :
              j \in {m \in idx : IsPage(sent[m])}}

DeliveredAfterLastReset == ItemsSent((LastReset + 1)..Len(sent))

DeliveredBeforeLastReset == ItemsSent(1..LastReset)

Entries(its) == {its[k] : k \in DOMAIN its}

SyncReturned == a_pc = "returned"

SyncReturnedOk == a_pc = "returned" /\ sync_result /= None /\ Unwrap(sync_result).ok

\* C2: when sync_drive_items has returned after the Fetcher sent a None, every
\* entry of the items map was delivered in a batch sent after the last None
\* (no entry of the start state or of an earlier batch survives), and size is
\* the sum of those file entries.
C2_ResetForgetsEarlierItems ==
    (SyncReturned /\ ResetSent) =>
        /\ Entries(state.items) \subseteq DeliveredAfterLastReset
        /\ state.size = FileSum(state.items)

C2_Witness ==
    /\ SyncReturnedOk
    /\ ResetSent
    /\ start = LoadedSnapshot
    /\ DeliveredBeforeLastReset /= {}
    /\ \E it \in DeliveredBeforeLastReset : it.id \notin DOMAIN state.items
    /\ DOMAIN state.items /= {}
    /\ state.size > 0

\* C3 (as claimed): when a sync returns normally, snapshot.delta_link is a
\* non-empty string and is the @odata.deltaLink of the last response observed.
C3_DeltaLinkNonEmptyAndLast ==
    SyncReturnedOk =>
        /\ delta_link /= ""
        /\ last_response = Some(Response(200, "absent", "absent", "page", Some(delta_link)))

\* C3 (amended): when a sync returns normally, snapshot.delta_link is the
\* @odata.deltaLink of the last response the Fetcher observed, whatever string
\* the server put there.
C3_DeltaLinkIsLastResponse ==
    SyncReturnedOk =>
        /\ last_response = Some(Response(200, "absent", "absent", "page", Some(delta_link)))
        /\ Unwrap(sync_result).value = delta_link

C3_Witness ==
    /\ SyncReturnedOk
    /\ delta_link = "deltaT"
    /\ start = LoadedSnapshot
    /\ ResetSent
    /\ Len(sent) = MaxMessages

\* C4: no entry of the items map has its deleted flag set, and once the last
\* handler call was for a tombstone, the map has no entry with its id.
C4_NoTombstoneInItems ==
    /\ \A k \in DOMAIN state.items : state.items[k].deleted = None
    /\ (applied /= <<>> /\ IsSome(applied[Len(applied)])
            /\ IsSome(applied[Len(applied)][1].deleted))
        => applied[Len(applied)][1].id \notin DOMAIN state.items

C4_Witness ==
    /\ SyncReturnedOk
    /\ start = LoadedSnapshot
    /\ ~ResetSent
    /\ applied /= <<>>
    /\ applied[Len(applied)] = Some(Tombstone("a"))
    /\ "a" \notin DOMAIN state.items
    /\ "c" \in DOMAIN state.items

\* C5: once the Applier has left its loop, every message the Fetcher sent,
\* the batch of the terminal page included, has been applied; in particular
\* when the Fetcher returned normally and sync_drive_items has returned.
C5_EverySentMessageApplied ==
    (a_pc \in {"join", "returned"}) =>
        /\ applied = Events(sent)
        /\ chan = <<>>

C5_Witness ==
    /\ SyncReturnedOk
    /\ f_pc = "returned"
    /\ Len(sent) >= 2
    /\ IsPage(sent[Len(sent)])
    /\ Len(Unwrap(sent[Len(sent)])) >= 1
    /\ applied = Events(sent)

\* C6: the handler calls made so far are exactly the calls the sent messages
\* ask for, in the order sent, up to the messages still queued: nothing is
\* applied twice, skipped or reordered.
C6_AppliedInSentOrder ==
    /\ IsPrefix(applied, Events(sent))
    /\ (a_pc = "recv") => applied \o Events(chan) = Events(sent)

C6_Witness ==
    /\ Len(applied) = 3
    /\ applied[1] /= applied[2]
    /\ IsSome(applied[1])
    /\ IsSome(applied[2])
    /\ applied[3] = None
    /\ Len(sent) = 2

(***************************************************************************)
(* Storage                                                                 *)
(***************************************************************************)
\* the last call of save has returned
SaveReturned == s_pc = "idle" /\ saves > 0

\* the last call of save wrote the whole encoding and renamed it
SaveSucceeded == SaveReturned /\ last_save.outcome = "renamed" /\ wrote = "all"

\* a step of the last call of save failed after the temporary file was created
SaveFailedAfterCreate ==
    /\ SaveReturned
    /\ last_save.outcome \in {"renamed", "serialize failed", "rename failed"}
    /\ wrote \in {"write failed", "flush failed"} \/ last_save.outcome = "rename failed"

\* C7: a load after a save(x) in which every file operation succeeded returns
\* Some(x), for the first save and for each later one
C7_SaveLoadRoundTrip ==
    (SaveSucceeded /\ IsSome(load_result)) => Unwrap(load_result) = saving

\* a second save of another value succeeded over the first, and was loaded
C7_Witness ==
    /\ SaveSucceeded
    /\ saves = 2
    /\ target_before = Some(ser_snapshot(StorValueA))
    /\ saving = Some(StorValueB)
    /\ load_result = Some(Some(StorValueB))

\* C8: from the start of a save on, the target holds what it held when the
\* save began (or is absent as it was) or the whole encoding of the new value
C8_TargetNeverPartial ==
    (IsSome(path) /\ saves > 0 /\ s_pc # "panicked")
        => ReadFile(fs, Unwrap(path)) \in
              {target_before, Some(ser_snapshot(Unwrap(saving)))}

NotSkipped(item) ==
    /\ item.item_type.tag = "File"
    /\ item.parent.path # None
    /\ item.item_type.hashes # None
    /\ \/ /\ item.parent.drive_type = "personal"
          /\ Unwrap(item.item_type.hashes).sha # None
       \/ /\ item.parent.drive_type \in {"business", "documentLibrary"}
          /\ Unwrap(item.item_type.hashes).xor # None
    /\ ~ignore_path(trim_start_matches(Unwrap(item.parent.path), DriveRootPrefix),
                    item.name)

\* the (size, ItemHash) of a File that is not skipped
KeyOf(item) ==
    <<item.size,
      IF item.parent.drive_type = "personal"
      THEN [tag |-> "Sha1", payload |-> Unwrap(Unwrap(item.item_type.hashes).sha)]
      ELSE [tag |-> "QuickXor", payload |-> Unwrap(Unwrap(item.item_type.hashes).xor)]>>

\* the name a File is listed by
NameOf(item) ==
    trim_start_matches(Unwrap(item.parent.path), DriveRootPrefix)
        \o <<"/">> \o item.name

\* the (size, ItemHash) pairs that have a list in the output
ListKeys(out) == UNION {{<<s, h>> : h \in DOMAIN out[s]} : s \in DOMAIN out}

Occurrences(list, name) == Cardinality({i \in 1..Len(list) : list[i] = name})

HashDecides(item) ==
    /\ IsFile(item)
    /\ IsSome(item.parent.path)
    /\ IsSome(item.item_type.hashes)
    /\ ~ignore_path(trim_start_matches(Unwrap(item.parent.path), DriveRootPrefix),
                    item.name)

\* `after` is `before` with one name more at the end of the list under (sz, hash)
FiledUnder(before, after, sz, hash, name) ==
    /\ ListKeys(after) = ListKeys(before) \cup {<<sz, hash>>}
    /\ \A k \in ListKeys(after) :
          after[k[1]][k[2]] =
             IF k = <<sz, hash>>
             THEN Append(IF k \in ListKeys(before) THEN before[k[1]][k[2]] ELSE <<>>, name)
             ELSE before[k[1]][k[2]]

\* what the drive type alone asks of a File whose hash decides
FiledByDriveType(item, before, after) ==
    LET hashes == Unwrap(item.item_type.hashes)
    IN  IF item.parent.drive_type = "personal" /\ IsSome(hashes.sha)
        THEN FiledUnder(before, after, item.size,
                        [tag |-> "Sha1", payload |-> Unwrap(hashes.sha)], NameOf(item))
        ELSE IF item.parent.drive_type \in {"business", "documentLibrary"}
                /\ IsSome(hashes.xor)
        THEN FiledUnder(before, after, item.size,
                        [tag |-> "QuickXor", payload |-> Unwrap(hashes.xor)], NameOf(item))
        ELSE after = before

\* C11: each turn of the loop files a File under Sha1(sha1) when its drive type
\* is personal, under QuickXor(quickXor) when it is business or
\* documentLibrary, and files nothing for another drive type or when the hash
\* its drive type asks for is absent, whatever other hash is present
C11_HashChosenByDriveType ==
    [][\A id \in todo \ todo' :
          HashDecides(names_by_hash[id]) =>
             FiledByDriveType(names_by_hash[id], names_by_hash_by_size,
                              names_by_hash_by_size')]_vars

\* returned having filed a personal File with both hashes under its sha1, and
\* having visited a business File with a sha1 only that is in no list
C11_Witness ==
    /\ b_pc = "returned"
    /\ \E id \in DOMAIN names_by_hash :
          /\ names_by_hash[id].parent.drive_type = "personal"
          /\ names_by_hash[id].item_type = BothHashes
          /\ <<names_by_hash[id].size, [tag |-> "Sha1", payload |-> "X"]>>
                \in ListKeys(names_by_hash_by_size)
    /\ \E id \in DOMAIN names_by_hash :
          /\ names_by_hash[id].parent.drive_type = "business"
          /\ names_by_hash[id].item_type = OnlySha
    /\ \A k \in ListKeys(names_by_hash_by_size) : k[2].tag = "Sha1"

\* the parent path as the server gives it names a directory under .svn/pristine
InSvnPristine(item) ==
    /\ IsFile(item)
    /\ IsSome(item.parent.path)
    /\ EndsWith(item.name, <<".svn-base">>)
    /\ Contains(Unwrap(item.parent.path), <<"/", ".svn", "/", "pristine", "/">>)

\* C12: when bucket_by_size returns, no list holds the name of a File whose
\* basename ends with .svn-base and whose parent path contains /.svn/pristine/,
\* wherever in the path the .svn directory is
C12_SvnPristineNeverListed ==
    b_pc = "returned" =>
        \A id \in DOMAIN names_by_hash :
            InSvnPristine(names_by_hash[id]) =>
                \A k \in ListKeys(names_by_hash_by_size) :
                    Occurrences(names_by_hash_by_size[k[1]][k[2]],
                                NameOf(names_by_hash[id])) = 0

(***************************************************************************)
(* The Fetcher's ends                                                      *)
(***************************************************************************)
FetcherEnded == f_pc \in {"returned", "panicked"}

\* the last response was an answer to slow down: a status other than 200, 410
\* and 401 with a Retry-After of so many seconds
Throttled ==
    /\ IsSome(last_response)
    /\ Unwrap(last_response).status \in OtherStatuses
    /\ Unwrap(last_response).retry_after = "seconds"

\* C13 as stated: every run of the Fetcher ends
C13_FetcherTerminates == <>FetcherEnded

\* C13: the Fetcher ends only by returning a delta cursor or by panicking, and
\* every run in which the server stops answering with Retry-After ends
C13_FetcherTerminatesUnlessThrottledForever ==
    /\ [](FetcherEnded <=>
            /\ IsSome(f_exit)
            /\ Unwrap(f_exit).kind \in {"return", "panic"}
            /\ (f_pc = "returned") = (Unwrap(f_exit).kind = "return"))
    /\ (<>[]~Throttled) => <>FetcherEnded

\* the Fetcher was throttled, failed up to the cap, and panicked
C13_Witness ==
    /\ f_pc = "panicked"
    /\ fail_count = RetryCap
    /\ Len(sent) = MaxMessages

(***************************************************************************)
(* The join, and items that are malformed                                  *)
(***************************************************************************)
\* sync_drive_items is past its join
Joined == mode = "sync" /\ a_pc \in {"returned", "panicked"} /\ FetcherEnded

\* C14: past the join, the string a Fetcher that returned gave is the result
\* and snapshot.delta_link, and a Fetcher panic with a string payload, a &str
\* or a String, is an error value and no panic of the caller
C14_StringPanicIsRecoverableError ==
    Joined =>
        IF Unwrap(f_exit).kind = "return"
        THEN /\ sync_result = Some([ok |-> TRUE, value |-> Unwrap(f_exit).value])
             /\ delta_link = Unwrap(f_exit).value
        ELSE Unwrap(f_exit).payload \in {"&str", "String"} =>
                /\ sync_result = Some([ok |-> FALSE, value |-> Unwrap(f_exit).value])
                /\ main_panic = None

\* C15: the Fetcher never panics on a page because an item of it is malformed
C15_MalformedItemNeverAborts ==
    (f_pc = "panicked" /\ IsSome(last_response))
        => Unwrap(last_response).body # "page with a bad item"

(***************************************************************************)
(* main: when the cache is written                                         *)
(***************************************************************************)
\* the sync of this run ended without a delta link: the Fetcher panicked, or
\* sync_drive_items returned an error or panicked
SyncFailed ==
    \/ f_pc = "panicked"
    \/ a_pc = "panicked"
    \/ m_pc = "panicked"
    \/ (a_pc = "returned" /\ ~Unwrap(sync_result).ok)

\* C16: while main is at one drive, a file of its cache directory changes only
\* once sync_drive_items has returned a delta link, in a save of the snapshot
\* with that delta link; and when the sync fails no save is begun and the
\* cache file still decodes to what was loaded from it
C16_SaveOnlyAfterSyncOk ==
    /\ [][(fs' # fs /\ m_pc' # "load") =>
            /\ SyncReturnedOk
            /\ saves' = 1
            /\ Unwrap(saving').delta_link = Unwrap(sync_result).value]_vars
    /\ [](SyncFailed =>
            /\ saves = 0
            /\ s_pc = "idle"
            /\ fs \in MainFiles
            /\ load_result = Some(load(fs, path)))

\* a run that loaded an earlier snapshot, synced to a new delta link, and saved
C16_Witness ==
    /\ m_pc = "save"
    /\ s_pc = "idle"
    /\ last_save.outcome = "renamed"
    /\ wrote = "all"
    /\ target_before = Some(ser_snapshot(LoadedSnapshot))
    /\ delta_link = "deltaT"
    /\ ReadFile(fs, PlainPath) =
          Some(ser_snapshot([delta_link |-> delta_link, state |-> state]))

\* nothing can be loaded: there is no path, no file, or the file does not decode
NothingToLoad(files, p) ==
    \/ p = None
    \/ ~Exists(files, Unwrap(p))
    \/ ser_snapshot(LoadedSnapshot) # files[Unwrap(p)]

\* C17: with no path, no file, or a file that does not decode, load returns
\* None and main goes on to sync from the default snapshot (the bootstrap link,
\* an empty state); and with no path no step of a save changes the files
C17_AbsentLoadStartsFromDefault ==
    /\ []((m_pc \in {"sync", "panicked"} /\ NothingToLoad(fs, path)) =>
            /\ load_result = Some(None)
            /\ start = DefaultSnapshot
            /\ (sent = <<>> => link = BootLink))
    /\ [][path = None => fs' = fs]_vars

\* main synced from the default snapshot after loading from a damaged file
C17_Witness ==
    /\ m_pc = "sync"
    /\ path = Some(PlainPath)
    /\ Exists(fs, PlainPath)
    /\ NothingToLoad(fs, path)
    /\ start = DefaultSnapshot
    /\ SyncReturnedOk

(***************************************************************************)
(* Decoding an item                                                        *)
(***************************************************************************)
\* the keys of an item as it is sent
WireKeys == {wire[i][1] : i \in 1..Len(wire)}

FacetKeys == {"file", "folder", "package"}

\* the variant each facet key names
VariantOf(key) ==
    IF key = "file" THEN "File" ELSE IF key = "folder" THEN "Folder" ELSE "Package"

\* the facet key that comes first in the document
FirstFacet ==
    LET at == {i \in 1..Len(wire) : wire[i][1] \in FacetKeys}
    IN  wire[CHOOSE i \in at : \A j \in at : i <= j][1]

\* the item was decoded, and decoding gave an item
DecodedItem == IsSome(decoded) /\ IsSome(Unwrap(decoded))

TheItem == Unwrap(Unwrap(decoded))

\* what the item keeps whatever its facets are
KeepsFields ==
    /\ TheItem.id = "ID"
    /\ TheItem.name = <<"NAME">>
    /\ TheItem.size = (IF "size" \in WireKeys THEN 2 ELSE 0)
    /\ IsSome(TheItem.deleted) <=> "deleted" \in WireKeys
    /\ IsSome(TheItem.parent.path)
         <=> IsSome(Get(Unwrap(Get(wire, "parentReference")), "path"))

\* C18 as stated: an item decodes as File, Folder or Package exactly when the
\* key file, folder or package is present, deleted is set exactly when the
\* deleted key is present, and id, name and size are kept
C18_TypeIffFacetKeyPresent ==
    DecodedItem =>
        /\ \A key \in FacetKeys :
              (TheItem.item_type.tag = VariantOf(key)) <=> (key \in WireKeys)
        /\ KeepsFields

\* C18: an item with a parentReference decodes exactly when one of the keys
\* file, folder and package is present; its type is the one named by the first
\* of these keys in the document, whatever the facet holds, so by the only one
\* when there is only one; deleted is set exactly when the deleted key is
\* present; id, name and size are kept, with or without a parent path
C18_TypeIsFirstFacetKey ==
    IsSome(decoded) =>
        /\ IsSome(Unwrap(decoded))
             <=> /\ "parentReference" \in WireKeys
                 /\ WireKeys \cap FacetKeys # {}
        /\ DecodedItem =>
             /\ TheItem.item_type.tag = VariantOf(FirstFacet)
             /\ \A key \in FacetKeys :
                   WireKeys \cap FacetKeys = {key}
                       => TheItem.item_type.tag = VariantOf(key)
             /\ KeepsFields

\* a deleted file whose parent has no path was decoded as a File tombstone
C18_Witness ==
    /\ DecodedItem
    /\ "deleted" \in WireKeys
    /\ WireKeys \cap FacetKeys = {"file"}
    /\ TheItem.parent.path = None
    /\ TheItem.item_type.tag = "File"
    /\ IsSome(TheItem.deleted)
    /\ TheItem.size = 2

(***************************************************************************)
(* Expired cursors and counted failures                                    *)
(***************************************************************************)
\* the response the Fetcher has just handled
Handled == Unwrap(last_response')

\* a step in which the Fetcher handles a 410 or a 401
ExpiredStep ==
    /\ Fetching
    /\ IsSome(last_response')
    /\ Handled.status \in {410, 401}
    /\ sent' # sent \/ f_pc' # f_pc

\* C19: handling a 410 or a 401 while the caller still receives, the Fetcher
\* sends one None and nothing else, stays in its loop without counting a
\* failure, and asks next for the Location header's link if that is there and
\* is a string, else for reset_link; so whatever it sends later comes after
\* that None
C19_ExpiryResetsAndRestarts ==
    [][(ExpiredStep /\ receiver_alive) =>
          /\ sent' = Append(sent, None)
          /\ chan' = Append(chan, None)
          /\ f_pc' = "run"
          /\ f_exit' = None
          /\ fail_count' = fail_count
          /\ link' = (IF Handled.location = "valid" THEN LocationLink ELSE BootLink)]_vars

\* after a 410 with a Location header the Fetcher fetched a page from that
\* link, and the sync returned Ok
C19_Witness ==
    /\ SyncReturnedOk
    /\ \E i \in 1..Len(sent) : ~IsPage(sent[i]) /\ i < Len(sent)
    /\ \E i \in 1..Len(applied) : applied[i] = None

\* the outcomes fetch_items hands to retry_or_panic: no response at all, a 200
\* whose body is cut short or is no page, and another status without a
\* Retry-After header
CountedFailure(r) ==
    \/ r = None
    \/ /\ r # None
       /\ \/ Unwrap(r).status = 200 /\ Unwrap(r).body # "page"
          \/ Unwrap(r).status \in OtherStatuses /\ Unwrap(r).retry_after = "absent"

\* a step in which the Fetcher handles such an outcome
FailureStep ==
    /\ Fetching
    /\ CountedFailure(last_response')
    /\ fail_count' # fail_count \/ f_pc' # f_pc

RetryMessages ==
    {"Error fetching items", "Could not deserialize sync page", "Partial response",
     "Unexpected response"}

\* what retry_or_panic does with a failure
RetriesOrPanics ==
    IF fail_count < RetryCap
    THEN /\ fail_count' = fail_count + 1
         /\ f_pc' = "run"
         /\ link' = link
         /\ sent' = sent
    ELSE /\ f_pc' = "panicked"
         /\ \E message \in RetryMessages : f_exit' = Some(Panic("&str", message))
         /\ fail_count' = fail_count

\* C20 as stated: fail_count is the number of failures of the run: each failure
\* adds one while it is below 3 and panics at 3, it never exceeds 3 and nothing
\* else changes it, so a run has at most 3 failures before the one that panics
C20_FourthFailureOfRunPanics ==
    /\ [][FailureStep => RetriesOrPanics]_vars
    /\ [](fail_count \in 0..RetryCap)
    /\ [][~FailureStep => fail_count' = fail_count]_vars

\* C20: each failure adds one to fail_count while it is below 3 and panics with
\* the failure's message at 3, and fail_count never exceeds 3; the only other
\* change to it is the reset to 0 by a page with a nextLink, so the Fetcher
\* tolerates 3 failures since the last such page and panics on the 4th
C20_FourthFailureSinceNextLinkPanics ==
    /\ [][FailureStep => RetriesOrPanics]_vars
    /\ [](fail_count \in 0..RetryCap)
    /\ [][(~FailureStep /\ fail_count' # fail_count) =>
             /\ fail_count' = 0
             /\ Handled.status = 200
             /\ Handled.body = "page"
             /\ Handled.delta_link = None
             /\ link' \in NextLinks
             /\ Len(sent') = Len(sent) + 1]_vars

\* the Fetcher failed, got a page with a nextLink, and then failed four more
\* times, the last of which panicked
C20_Witness ==
    /\ f_pc = "panicked"
    /\ fail_count = RetryCap
    /\ Unwrap(f_exit).value \in RetryMessages
    /\ link \in NextLinks
    /\ CountedFailure(last_response)

(***************************************************************************)
(* The assertion and the order of the arithmetic in upsert and delete      *)
(***************************************************************************)
\* C28: no call of upsert or delete fails the assertion prev.size <= size
C28_AssertionNeverFails ==
    main_panic # Some("assertion failed: size <= self.size")

\* the item of the call that a step makes
Called == Unwrap(last_op'.item)

\* a step that upserts a file over a file, with the sum of the file sizes
\* fitting a u64 before the call and after it
UpsertFileOverFile ==
    /\ mode = "state"
    /\ last_op'.op = "upsert"
    /\ IsFile(Called)
    /\ Called.id \in DOMAIN state.items
    /\ IsFile(state.items[Called.id])
    /\ state.size = FileSum(state.items)
    /\ FileSum(HashMapInsert(state.items, Called)) <= MaxU64

\* C29: an upsert of a file over a file, the sums fitting before and after,
\* does not panic and leaves size at the new sum
C29_ReplaceStaysInRange ==
    [][UpsertFileOverFile =>
          /\ main_panic' = None
          /\ state'.items = HashMapInsert(state.items, Called)
          /\ state'.size = FileSum(state'.items)]_vars

\* what the entry stored under an id takes from size when it is removed
StoredSize(st, id) ==
    IF id \in DOMAIN st.items /\ IsFile(st.items[id]) THEN st.items[id].size ELSE 0

\* C30: delete removes the entry stored under item.id and subtracts the size
\* of that entry if it was a File (failing the assertion if size is smaller);
\* a tombstone with the same id and any other size, type, name or flag gives
\* the same items and size
C30_DeleteUsesStoredEntry ==
    [][(mode = "state" /\ last_op'.op = "delete") =>
          /\ state'.items = HashMapRemove(state.items, Called.id)
          /\ IF StoredSize(state, Called.id) <= state.size
             THEN /\ state'.size = state.size - StoredSize(state, Called.id)
                  /\ main_panic' = None
             ELSE /\ state'.size = state.size
                  /\ main_panic' = Some("assertion failed: size <= self.size")
          /\ \A other \in StateItems :
                other.id = Called.id => delete(state, other) = delete(state, Called)]_vars

\* a tombstone that says Folder and a size of its own removed an entry, and
\* size is the sum of the files that are left
C30_Witness ==
    /\ mode = "state"
    /\ last_op.op = "delete"
    /\ Unwrap(last_op.item).item_type = Folder
    /\ Unwrap(last_op.item).size = MaxU64
    /\ IsSome(Unwrap(last_op.item).deleted)
    /\ Unwrap(last_op.item).id \notin DOMAIN state.items
    /\ state.size = 1
    /\ state.size = FileSum(state.items)
    /\ main_panic = None

(***************************************************************************)
(* Transport errors                                                        *)
(***************************************************************************)
\* the sleeps of a call of get that fails on every attempt
Backoff == <<1, 16, 256>>

\* a call of get retries at most 3 times, sleeping 1, 16 and 256 seconds
GetBacksOff ==
    /\ retries \in 0..GetRetries
    /\ Len(slept) = GetRetries - retries
    /\ slept = SubSeq(Backoff, 1, Len(slept))

\* a step in which the transport fails again after the third retry
GiveUpStep ==
    /\ mode = "get"
    /\ f_pc = "run"
    /\ retries = 0
    /\ last_response' = None
    /\ fail_count' # fail_count \/ f_pc' # f_pc

\* C21 as stated: a call of get retries at most 3 times, sleeping 1, 16 and
\* 256 seconds, and when the transport fails after the third retry the
\* Fetcher ends with a panic
C21_PersistentTransportErrorIsFatal ==
    /\ []GetBacksOff
    /\ [][GiveUpStep => f_pc' = "panicked"]_vars

\* C21: a call of get retries at most 3 times, sleeping 1, 16 and 256
\* seconds; when the transport fails after the third retry, get returns the
\* error and fetch_items counts one failure: below 3 failures it calls get
\* again with the same link and 3 fresh retries, at 3 it panics with
\* "Error fetching items"
C21_PersistentTransportErrorIsCounted ==
    /\ []GetBacksOff
    /\ [][GiveUpStep =>
             /\ sent' = sent
             /\ link' = link
             /\ IF fail_count < RetryCap
                THEN /\ fail_count' = fail_count + 1
                     /\ f_pc' = "run"
                     /\ GetIdle'
                ELSE /\ fail_count' = fail_count
                     /\ f_pc' = "panicked"
                     /\ f_exit' = Some(Panic("&str", "Error fetching items"))]_vars

\* the Fetcher panicked on its first link after four calls of get, each of
\* which slept 1, 16 and 256 seconds
C21_Witness ==
    /\ mode = "get"
    /\ f_pc = "panicked"
    /\ f_exit = Some(Panic("&str", "Error fetching items"))
    /\ fail_count = RetryCap
    /\ slept = Backoff
    /\ sent = <<>>
    /\ link = BootLink

(***************************************************************************)
(* Throttling, the failure count and the link                              *)
(***************************************************************************)
\* a step of the Fetcher, which touches neither the Applier nor the state
FetcherStep ==
    /\ Fetching
    /\ UNCHANGED <<a_pc, applied, start, delta_link, sync_result, stateVars>>
    /\ <<fetchVars, sent>>' # <<fetchVars, sent>>

\* a step in which the Fetcher handles a response that has a Retry-After
\* header and a status other than 200, 401 and 410
ThrottleStep ==
    /\ FetcherStep
    /\ IsSome(last_response')
    /\ Handled.status \notin {200, 401, 410}
    /\ Handled.retry_after # "absent"

\* C22: handling such a response the Fetcher stays in its loop with the same
\* link, the same fail_count and nothing sent, however many came before
C22_RetryAfterIsHonoured ==
    [][ThrottleStep =>
          /\ f_pc' = "run"
          /\ link' = link
          /\ fail_count' = fail_count
          /\ sent' = sent
          /\ chan' = chan]_vars

\* a step in which the Fetcher handles a 200 whose body is a page
PageStep ==
    /\ FetcherStep
    /\ IsSome(last_response')
    /\ Handled.status = 200
    /\ Handled.body = "page"

\* C23: a parsed page leaves fail_count at 0 for the requests that follow (the
\* page with the deltaLink ends the Fetcher, which asks no more), a 410 or 401
\* leaves it as it is, and nothing but a parsed page lowers it and nothing but
\* a counted failure raises it, by one
C23_FailuresCountedSinceLastPage ==
    /\ [][PageStep =>
             IF f_pc' = "run"
             THEN fail_count' = 0
             ELSE f_pc' = "returned" \/ ~receiver_alive]_vars
    /\ [][ExpiredStep => fail_count' = fail_count]_vars
    /\ [][fail_count' < fail_count => PageStep]_vars
    /\ [][fail_count' > fail_count =>
             FailureStep /\ fail_count' = fail_count + 1]_vars

\* the Fetcher failed, restarted from the Location link after an expired
\* cursor, and reached the cap with the failures from before the restart
C23_Witness ==
    /\ mode = "sync"
    /\ f_pc = "panicked"
    /\ sent = <<None>>
    /\ link = LocationLink
    /\ fail_count = RetryCap
    /\ CountedFailure(last_response)

\* a step in which a request gives neither a parsed page nor a 410 or 401
NoPageStep ==
    /\ FetcherStep
    /\ \/ last_response' = None
       \/ /\ IsSome(last_response')
          /\ \/ Handled.status = 200 /\ Handled.body # "page"
             \/ Handled.status \notin {200, 401, 410}

\* C24: such a step sends nothing and leaves the link as it is
C24_FailureKeepsLinkAndSendsNothing ==
    [][NoPageStep =>
          /\ sent' = sent
          /\ chan' = chan
          /\ link' = link]_vars

\* after a page with a nextLink a request failed, and the Fetcher is about to
\* ask for the same nextLink again
C24_Witness ==
    /\ mode = "sync"
    /\ f_pc = "run"
    /\ fail_count > 0
    /\ link \in NextLinks
    /\ Len(sent) = 1
    /\ CountedFailure(last_response)

(***************************************************************************)
(* The channel                                                             *)
(***************************************************************************)
\* C25 as stated: the queue has a capacity that holds the Fetcher back, so
\* fewer messages are queued than a run sends
C25_QueueBelowCapacity == Len(chan) < MaxMessages

\* C25: the queue has no capacity: a send never waits for the Applier,
\* whatever is queued, and the queue can hold every message of the run
C25_SendNeverWaits ==
    /\ Len(chan) <= Len(sent)
    /\ (Fetching /\ Len(sent) < MessageBudget) => ENABLED FetchExpired

\* every message of the run is queued and the Applier has taken none
C25_Witness ==
    /\ mode = "sync"
    /\ Len(chan) = MaxMessages
    /\ chan = sent
    /\ applied = <<>>
    /\ a_pc = "recv"

(***************************************************************************)
(* The cache file and the Fetcher thread                                   *)
(***************************************************************************)
\* the Fetcher thread is spawned and has not ended
FetcherAlive == f_pc = "run"

\* a step that reads the cache file or takes a step of a save
FileStep == fs' # fs \/ s_pc' # s_pc \/ load_result' # load_result

\* C26: while a Fetcher is alive main is within sync_items and no save is under
\* way; the cache file is read or written only in steps that start with no
\* Fetcher alive; the loop goes on to the next drive only when the Fetcher of
\* this one has returned and was joined; and a Fetcher is spawned only when
\* none is left from before
C26_NoFileAccessWhileFetching ==
    /\ [](FetcherAlive => m_pc = "sync" /\ s_pc = "idle")
    /\ [][FileStep => ~FetcherAlive]_vars
    /\ [][(m_pc' = "load" /\ m_pc # "load") =>
             f_pc = "returned" /\ a_pc = "returned"]_vars
    /\ [][(FetcherAlive' /\ ~FetcherAlive) => m_pc = "load" /\ f_pc = "idle"]_vars

\* the snapshot was loaded from the cache, the Fetcher returned and was joined,
\* and the save is writing the file
C26_Witness ==
    /\ m_pc = "save"
    /\ s_pc = "rename"
    /\ f_pc = "returned"
    /\ a_pc = "returned"
    /\ start = LoadedSnapshot
    /\ Len(sent) > 0

(***************************************************************************)
(* The end of sync_drive_items                                             *)
(***************************************************************************)
\* sync_drive_items has returned only if the Fetcher has ended
ReturnsAfterFetcher == (a_pc = "returned") => FetcherEnded

DeleteStep == mode = "state" /\ last_op'.op = "delete"

\* C36: a delete of an id that is not in items changes neither items nor
\* size, and a delete of an id stored as a Folder or a Package removes the
\* entry and leaves size as it was; neither panics
C36_DeleteLeavesSizeUnlessFile ==
    [][DeleteStep =>
          /\ Called.id \notin DOMAIN state.items =>
                 /\ state' = state
                 /\ main_panic' = None
          /\ (Called.id \in DOMAIN state.items /\ ~IsFile(state.items[Called.id])) =>
                 /\ state'.items = HashMapRemove(state.items, Called.id)
                 /\ state'.size = state.size
                 /\ main_panic' = None]_vars

\* a delete has left one File of the largest size, and size is that size
C36_Witness ==
    /\ mode = "state"
    /\ last_op.op = "delete"
    /\ Unwrap(last_op.item).item_type = Package
    /\ Unwrap(last_op.item).id = "a"
    /\ DOMAIN state.items = {"b"}
    /\ IsFile(state.items["b"])
    /\ state.size = MaxU64
    /\ state.items["b"].size = MaxU64
    /\ main_panic = None

(***************************************************************************)
(* Applying the same item twice                                            *)
(***************************************************************************)
\* a step that calls upsert and returns
UpsertStep == mode = "state" /\ last_op'.op = "upsert" /\ main_panic' = None

\* C38: after an upsert of an item, a second upsert of the same item returns
\* and leaves items and size as the first left them; after a delete of an
\* item, a second delete of the same item does the same
C38_SecondCallChangesNothing ==
    [][/\ UpsertStep =>
              upsert(state', Called, overflow_checks) = Outcome(state', None)
       /\ (DeleteStep /\ main_panic' = None) =>
              delete(state', Called) = Outcome(state', None)]_vars

(***************************************************************************)
(* The counts of bucket_by_size                                            *)
(***************************************************************************)
\* the ids of the map whose entry has one of these variants
EntriesOf(tags) ==
    {id \in DOMAIN names_by_hash : names_by_hash[id].item_type.tag \in tags}

\* C37: when bucket_by_size returns, file_count is the number of File
\* entries of the map, listed or skipped, folder_count the number of Folder
\* and Package entries, and the two add up to the number of entries
C37_CountsCoverEveryEntry ==
    b_pc = "returned" =>
        /\ file_count = Cardinality(EntriesOf({"File"}))
        /\ folder_count = Cardinality(EntriesOf({"Folder", "Package"}))
        /\ file_count + folder_count = Cardinality(DOMAIN names_by_hash)

\* a map of two files, both skipped, and a package has been counted
C37_Witness ==
    /\ b_pc = "returned"
    /\ file_count = 2
    /\ folder_count = 1
    /\ names_by_hash_by_size = <<>>
    /\ \E id \in DOMAIN names_by_hash : names_by_hash[id].item_type = Package
    /\ \E id \in DOMAIN names_by_hash : ~IsSome(names_by_hash[id].parent.path)
    /\ \E id \in DOMAIN names_by_hash : names_by_hash[id].parent.drive_type = "other"

(***************************************************************************)
(* The name of the temporary file                                          *)
(***************************************************************************)
\* a step in which save creates its temporary file
CreateStep == s_pc = "idle" /\ s_pc' = "serialize"

\* C33: the temporary file save creates is at a path other than the target
\* and at which no file was present, so that no file is truncated or replaced
C33_TempFileIsNew ==
    [][CreateStep =>
          /\ tmp_path' # path
          /\ ~Exists(fs, Unwrap(tmp_path'))
          /\ \A p \in DOMAIN fs : fs'[p] = fs[p]]_vars

(***************************************************************************)
(* The items map as the replay of what was sent                            *)
(***************************************************************************)
\* what the sent messages deliver, one by one: Some(item) or None
Delivered == Events(sent)

\* the place of the last None among them, 0 when none was sent
LastNone ==
    IF \E i \in 1..Len(Delivered) : Delivered[i] = None
    THEN CHOOSE i \in 1..Len(Delivered) :
            /\ Delivered[i] = None
            /\ \A j \in (i + 1)..Len(Delivered) : Delivered[j] # None
    ELSE 0

\* the places after the last None where an item with this id is delivered
DeliveriesOf(id) ==
    {j \in (LastNone + 1)..Len(Delivered) : Unwrap(Delivered[j]).id = id}

\* the last item delivered with this id
LastDelivered(id) ==
    Unwrap(Delivered[CHOOSE j \in DeliveriesOf(id) : \A n \in DeliveriesOf(id) : n <= j])

\* the map the replay starts from
ReplayBase == IF LastNone = 0 THEN start.state.items ELSE EmptyItems

\* the ids delivered after the last None
DeliveredIds == {Unwrap(Delivered[j]).id : j \in (LastNone + 1)..Len(Delivered)}

\* last write wins: an id delivered maps to the last item delivered with it
\* unless that is a tombstone, an id not delivered stays as the base has it
LastWriteWins ==
    LET kept == {id \in DeliveredIds : LastDelivered(id).deleted = None}
    IN  [id \in kept \cup (DOMAIN ReplayBase \ DeliveredIds) |->
            IF id \in kept THEN LastDelivered(id) ELSE ReplayBase[id]]

\* C31: when a sync has returned normally, the items map is the replay of the
\* items of the sent batches, in order, over the start state, or over the
\* empty state from the last None on, with the last write per id winning
C31_ItemsAreReplayOfSent ==
    SyncReturnedOk => state.items = LastWriteWins

\* a loaded entry was deleted and then delivered anew, another was left alone
C31_Witness ==
    /\ SyncReturnedOk
    /\ start = LoadedSnapshot
    /\ Delivered = <<Some(Tombstone("a")), Some(Item("a", <<"f">>, 1, SyncParent, File(None), None))>>
    /\ state.items["a"].size = 1
    /\ "c" \in DOMAIN state.items

(***************************************************************************)
(* The links a Fetcher is spawned with                                     *)
(***************************************************************************)
\* the step of main that spawns the Fetcher of the drive at hand
SpawnStep == m_pc = "load" /\ m_pc' = "sync"

\* C32: the Fetcher of a drive is spawned with the delta link of the snapshot
\* in the cache file when that file decodes, and with the bootstrap link of
\* this drive and an empty state of size 0 when nothing loads; its reset link
\* is the bootstrap link of this drive, from the spawn to the end of the run
C32_LinksOfTheDrive ==
    /\ [][SpawnStep =>
            /\ f_pc' = "run"
            /\ ~NothingToLoad(fs, path) =>
                   /\ link' = LoadedSnapshot.delta_link
                   /\ state' = LoadedSnapshot.state
            /\ NothingToLoad(fs, path) =>
                   /\ link' = DriveLink(drive_id)
                   /\ state' = DriveState(0, EmptyItems)
            /\ reset_link' = DriveLink(drive_id)]_vars
    /\ [](f_pc # "idle" => reset_link = DriveLink(drive_id))

\* the Fetcher of the second drive starts from the bootstrap link of that
\* drive, which is not the one of the first
C32_Witness ==
    /\ m_pc = "sync"
    /\ drive_id = Drives[2]
    /\ f_pc = "run"
    /\ sent = <<>>
    /\ link = DriveLink(Drives[2])
    /\ reset_link = link
    /\ link # DriveLink(Drives[1])
    /\ state = DriveState(0, EmptyItems)

(***************************************************************************)
(* main after a save that failed                                           *)
(***************************************************************************)
\* the last save of main returned without having renamed its file
SaveFailed ==
    /\ m_pc \in {"save", "report"}
    /\ s_pc = "idle"
    /\ last_save.outcome \in {"create failed", "serialize failed", "rename failed"}

\* main has a step to take until it has printed the report of the drive
MainGoesOn ==
    /\ (m_pc = "save" /\ s_pc # "idle") => ENABLED (SaveSerialize \/ SaveRename \/ SaveRemove)
    /\ (m_pc = "save" /\ s_pc = "idle" /\ b_pc = "idle") => ENABLED MainAnalyze
    /\ (m_pc = "save" /\ b_pc = "loop") => ENABLED (BucketVisit \/ BucketReturn)
    /\ (m_pc = "save" /\ b_pc = "returned") => ENABLED MainReport

\* C34: no step of a save ends main: once main has called save it has not
\* panicked, it always has a next step up to the report of the drive, the
\* state is the one the sync left, and what is analysed and reported is the
\* items map of that state, also when the save failed at any of its steps
C34_FailedSaveStillReports ==
    m_pc \in {"save", "report"} =>
        /\ main_panic = None
        /\ s_pc # "panicked"
        /\ MainGoesOn
        /\ SyncReturnedOk
        /\ state.items = LastWriteWins
        /\ b_pc # "idle" => names_by_hash = state.items
        /\ m_pc = "report" =>
              /\ b_pc = "returned"
              /\ file_count + folder_count = Cardinality(DOMAIN state.items)

\* the report of a drive was printed after a save whose rename failed and
\* whose temporary file could not be removed
C34_Witness ==
    /\ m_pc = "report"
    /\ SaveFailed
    /\ last_save = Saved("rename failed", "no")
    /\ start = LoadedSnapshot
    /\ file_count = Cardinality(DOMAIN state.items)
    /\ file_count > 0

(***************************************************************************)
(* What is persisted                                                       *)
(***************************************************************************)
\* the step in which main calls save
SaveCallStep == mode = "main" /\ saves' = saves + 1

\* C35: when main calls save, the Fetcher has returned and was joined, every
\* message it sent was applied, the last of them being the page that ended
\* the enumeration; the snapshot saved has the state these calls left and the
\* deltaLink of that page. And whatever the cache file decodes to is the
\* snapshot loaded from it or the snapshot saved
C35_SavedCursorMatchesState ==
    /\ [][SaveCallStep =>
            /\ f_pc = "returned"
            /\ a_pc = "returned"
            /\ Unwrap(f_exit).kind = "return"
            /\ Unwrap(saving').delta_link = Unwrap(f_exit).value
            /\ last_response =
                  Some(Response(200, "absent", "absent", "page",
                                Some(Unwrap(saving').delta_link)))
            /\ chan = <<>>
            /\ applied = Events(sent)
            /\ IsPage(sent[Len(sent)])
            /\ Unwrap(saving').state = state
            /\ state.items = LastWriteWins]_vars
    /\ []((mode = "main" /\ m_pc # "load" /\ IsSome(load(fs, path))) =>
            \/ load(fs, path) = saving
            \/ load(fs, path) = Some(start) /\ start = LoadedSnapshot)

\* after a reset the state was rebuilt, and the file holds it with the delta
\* link of the page that ended the run
C35_Witness ==
    /\ mode = "main"
    /\ m_pc = "save"
    /\ s_pc = "idle"
    /\ start = LoadedSnapshot
    /\ ResetSent
    /\ load(fs, path) = saving
    /\ Unwrap(saving).delta_link = "deltaT"
    /\ Unwrap(saving).state.items = LastWriteWins
    /\ DOMAIN state.items # {}

====
